---------------------------- MODULE Spec2Model ----------------------------
(***************************************************************************)
(* Model of mycodo's SensorController (controller_sensor.py, 547f6d9):     *)
(* the tick loop and its pause handshake with setup_sensor_conditionals,   *)
(* the edge-interrupt callback, the hardware-bus locks of update_measure,  *)
(* the driver read with its StopIteration counter, the ADC conversion and  *)
(* the threshold rules of check_conditionals.                              *)
(*                                                                         *)
(* The specifications share the variables; each moves its own group and    *)
(* leaves the others at their initial value.  Among them:                  *)
(*   SpecPause    run / setup_sensor_conditionals / stop_controller as     *)
(*                interleaved threads (statement steps)                    *)
(*   SpecEdge     the same with the edge_detected callback of an EDGE      *)
(*                device                                                   *)
(*   SpecLock     update_measure of several controllers over shared locks  *)
(*   SpecMeasure  update_measure of one controller, one call per step      *)
(*   SpecTick     the tick loop of a periodic device over wall-clock time  *)
(*   SpecRetry    the tick loop with a driver that fails at every read     *)
(*   SpecDriver   read() of the MH-Z19 driver, lockfile and fasteners      *)
(***************************************************************************)
EXTENDS Integers, Sequences, FiniteSets, TLC

VARIABLES
    \* ---- rule table and pause handshake (SensorController fields)
    running, pause_loop, verify_pause_loop, device, switch_edge,
    cond_id, cond_is_activated, cond_if_sensor_period,
    cond_if_sensor_edge_select, cond_if_sensor_edge_detected, cond_rest,
    cond_timer, smtp_wait_timer, edge_reset_timer, now, db,
    gen,                       \* which reconfiguration bound each dictionary
    lpc, l_it, l_itgen, l_id, l_mixed, l_err,        \* run()
    rpc, r_mod, r_rows, r_todo, r_id, r_calls,   \* setup_sensor_conditionals()
    epc, e_it, e_itgen, e_itsize, e_id, e_dir, e_mixed, e_err,  \* edge_detected()
    \* ---- hardware-bus locks and update_measure, per controller
    has_mux, has_adc,          \* self.multiplexer / self.adc are set
    holder,                    \* who holds each lock file
    upc, cur, waited, early, meas, updateSuccess,
    failed, did_read, breaks, entry_ext, env_failed, \* history of the call
    \* ---- the driver read of update_measure (one controller)
    adc, adc_volts_min, adc_volts_max, adc_units_min, adc_units_max,
    adc_inverse_unit_scale, stop_iteration_counter, measurement,
    reads, logs,               \* history: outcome and log lines of each read
    \* ---- the tick loop of a periodic device over wall-clock seconds
    period, next_measurement, get_new_measurement, trigger_cond,
    pre_relay_setup, pre_relay_duration, pre_relay_activated, pre_relay_timer,
    if_sensor_direction, if_sensor_setpoint,   \* the rule's Conditional row
    influx,                    \* the latest sample written to InfluxDB
    acquired, firings, ev, first_eval,         \* history of the run
    run_log,                   \* what the except clauses of run have logged
    due_at,                    \* history: when the measurement became due
    relay_starts,              \* history: when the pre relay was triggered
    measured,                  \* history: the calls of update_measure
    edges,                     \* history: the transitions edge_detected took
    ignored,                   \* history: the transitions it ignored
    \* ---- the action list of check_conditionals and the email limiter
    smtp_max_count, email_count, allowed_to_send_notice,
    notices,                   \* history: the email actions processed
    cond_actions,              \* the action list of the rule that fired
    apc,                       \* where check_conditionals stands
    a_k,                       \* the position of its loop in cond_actions
    a_threads,                 \* actions running in threads of their own
    a_started,                 \* history: the actions the loop has come to
    \* ---- the MH-Z19 driver (sensors/mh_z19.py), per calling process
    lock_library,              \* lockfile (before) or fasteners (migrated)
    serial_device,             \* is_device(device_loc) of the constructor
    lock_holder,               \* who holds the lock file of the device
    dpc,                       \* where read() stands
    calls,                     \* the calls of read() so far
    attempts,                  \* the non-blocking acquires of this call
    lock_acquired,             \* this call of read() has taken the lock
    co2,                       \* self._co2
    ret,                       \* what the last call of read() returned
    freed_unheld               \* history: release() without the lock

tvars == <<running, pause_loop, verify_pause_loop, device, switch_edge,
           cond_id, cond_is_activated, cond_if_sensor_period,
           cond_if_sensor_edge_select, cond_if_sensor_edge_detected, cond_rest,
           cond_timer, smtp_wait_timer, edge_reset_timer, now, db, gen,
           lpc, l_it, l_itgen, l_id, l_mixed, l_err,
           rpc, r_mod, r_rows, r_todo, r_id, r_calls,
           epc, e_it, e_itgen, e_itsize, e_id, e_dir, e_mixed, e_err>>

dvars == <<lock_library, serial_device, lock_holder, dpc, calls, attempts,
           lock_acquired, co2, ret, freed_unheld>>

\* what the controller is built on: self.multiplexer, self.adc, the driver
built == <<has_mux, has_adc, dvars>>

kvars == <<built, holder, upc, cur, waited, early, meas,
           updateSuccess, failed, did_read, breaks, entry_ext, env_failed>>

mvars == <<adc, adc_volts_min, adc_volts_max, adc_units_min, adc_units_max,
           adc_inverse_unit_scale, stop_iteration_counter, measurement,
           reads, logs>>

pvars == <<period, next_measurement, get_new_measurement, trigger_cond,
           pre_relay_setup, pre_relay_duration, pre_relay_activated,
           pre_relay_timer, if_sensor_direction, if_sensor_setpoint, influx,
           acquired, firings, ev, first_eval, run_log, due_at, relay_starts,
           measured, edges, ignored>>

avars == <<smtp_max_count, email_count, allowed_to_send_notice, notices,
           cond_actions, apc, a_k, a_threads, a_started>>

email_vars == <<smtp_max_count, email_count, allowed_to_send_notice, notices>>

list_vars == <<cond_actions, apc, a_k, a_threads, a_started>>

\* for the table model: the variables of the other models
others == <<kvars, mvars, pvars, avars>>

vars == <<tvars, kvars, mvars, pvars, avars>>

-----------------------------------------------------------------------------
(* Bounds *)

\* calls of setup_sensor_conditionals after construction
MaxReconf == 2
\* wall-clock units the table model lets pass
MaxNow == 2
\* calls of update_measure the driver-read model follows
MaxReads == 4
\* seconds of wall-clock time the tick model follows
MaxTime == 190
\* seconds the tick model follows an EDGE device, and the transitions of
\* its pin in that time
MaxSwitchTime == 4
MaxEdges == 3
\* email actions the limiter model follows
MaxNotices == 5
\* actions in the list of one rule
MaxActions == 2
\* calls of read() of the MH-Z19 driver by one process, and the non-blocking
\* acquires of one call (range(600) in the driver)
MaxCalls == 2
MaxTries == 2

-----------------------------------------------------------------------------
(* Python dictionaries: functions on the set of their keys *)

EmptyDict == <<>>

Put(d, k, v) == [x \in (DOMAIN d) \cup {k} |-> IF x = k THEN v ELSE d[x]]

Min(S) == CHOOSE x \in S : \A y \in S : x <= y

-----------------------------------------------------------------------------
(* The Conditional table of the database, as setup_sensor_conditionals and  *)
(* check_conditionals read it.                                              *)

RuleIds == {1, 2}

Off == [on |-> FALSE, sel |-> "state", det |-> "both", period |-> 1]

Row(sel, det, p) == [on |-> TRUE, sel |-> sel, det |-> det, period |-> p]

\* the versions of the table the model draws from: from one to another a
\* rule is added, deleted, or has its fields modified
DbA == [i \in RuleIds |-> IF i = 1 THEN Row("edge", "rising", 1) ELSE Off]

DbB == [i \in RuleIds |-> IF i = 1 THEN Row("edge", "falling", 2)
                                   ELSE Row("state", "both", 2)]

DbC == [i \in RuleIds |-> IF i = 1 THEN Off ELSE Row("edge", "both", 1)]

\* the calls of setup_sensor_conditionals the daemon makes: cond_mod and the
\* table the configuration was changed to before the call
Requests == {<<"add", DbB>>, <<"del", DbC>>, <<"mod", DbA>>, <<"other", DbB>>}

\* Conditional.sensor_id == self.sensor_id, Conditional.is_activated == True
ActiveIds(d) == {i \in RuleIds : d[i].on}

Devices == {"EDGE", "SENSOR"}

Fields == {"id", "act", "period", "sel", "det", "rest"}

-----------------------------------------------------------------------------
(* SensorController.__init__: the state the constructor leaves.  It calls   *)
(* setup_sensor_conditionals('setup') at time 0, which ends with both       *)
(* handshake flags false and every dictionary filled from the database.     *)

SmtpWindow == 3600

\* switch_reset_period of the device record
ResetPeriod == 1

TableInit ==
    /\ device \in Devices
    /\ switch_edge \in (IF device = "EDGE" THEN {"rising", "both"}
                                           ELSE {"both"})
    /\ db = DbA
    /\ now = 0
    /\ running = FALSE
    /\ pause_loop = FALSE
    /\ verify_pause_loop = FALSE
    /\ cond_id = [i \in ActiveIds(db) |-> i]
    /\ cond_is_activated = [i \in ActiveIds(db) |-> db[i].on]
    /\ cond_if_sensor_period = [i \in ActiveIds(db) |-> db[i].period]
    /\ cond_if_sensor_edge_select = [i \in ActiveIds(db) |-> db[i].sel]
    /\ cond_if_sensor_edge_detected = [i \in ActiveIds(db) |-> db[i].det]
    /\ cond_rest = [i \in ActiveIds(db) |-> i]
    /\ cond_timer = [i \in ActiveIds(db) |-> now + db[i].period]
    /\ smtp_wait_timer = [i \in ActiveIds(db) |-> now + SmtpWindow]
    /\ edge_reset_timer = now
    /\ gen = [f \in Fields |-> 0]
    /\ lpc = "start" /\ l_it = {} /\ l_itgen = 0 /\ l_id = 0 /\ l_mixed = FALSE
    /\ l_err = FALSE
    /\ rpc = "idle" /\ r_mod = "setup" /\ r_rows = db /\ r_todo = {}
    /\ r_id = 0 /\ r_calls = 0
    /\ epc = "idle" /\ e_it = {} /\ e_itgen = 0 /\ e_itsize = 0 /\ e_id = 0
    /\ e_dir = 0 /\ e_mixed = FALSE /\ e_err = FALSE

\* The table model at rest, for the specifications that do not move it.
TableIdle ==
    /\ device = "SENSOR" /\ switch_edge = "both"
    /\ db = [i \in RuleIds |-> Off]
    /\ now = 0 /\ running = FALSE /\ pause_loop = FALSE
    /\ verify_pause_loop = FALSE
    /\ cond_id = EmptyDict /\ cond_is_activated = EmptyDict
    /\ cond_if_sensor_period = EmptyDict
    /\ cond_if_sensor_edge_select = EmptyDict
    /\ cond_if_sensor_edge_detected = EmptyDict /\ cond_rest = EmptyDict
    /\ cond_timer = EmptyDict /\ smtp_wait_timer = EmptyDict
    /\ edge_reset_timer = 0
    /\ gen = [f \in Fields |-> 0]
    /\ lpc = "start" /\ l_it = {} /\ l_itgen = 0 /\ l_id = 0 /\ l_mixed = FALSE
    /\ l_err = FALSE
    /\ rpc = "idle" /\ r_mod = "setup" /\ r_rows = db /\ r_todo = {}
    /\ r_id = 0 /\ r_calls = 0
    /\ epc = "idle" /\ e_it = {} /\ e_itgen = 0 /\ e_itsize = 0 /\ e_id = 0
    /\ e_dir = 0 /\ e_mixed = FALSE /\ e_err = FALSE

handshake == <<running, pause_loop, verify_pause_loop>>
\* the device record, and the variables of the other models: no action of
\* the table model changes either
config == <<device, switch_edge, others>>
dicts == <<cond_id, cond_is_activated, cond_if_sensor_period,
           cond_if_sensor_edge_select, cond_if_sensor_edge_detected,
           cond_rest, gen>>
timers == <<cond_timer, smtp_wait_timer>>
lvars == <<lpc, l_it, l_itgen, l_id, l_mixed, l_err>>
rvars == <<rpc, r_mod, r_rows, r_todo, r_id, r_calls>>
evars == <<epc, e_it, e_itgen, e_itsize, e_id, e_dir, e_mixed, e_err>>

-----------------------------------------------------------------------------
(* SensorController.run: the tick loop, one action per statement that reads *)
(* or writes a field another thread touches.                                *)

\* self.running = True (the edge callback is registered right after)
RunStart ==
    /\ lpc = "start"
    /\ running' = TRUE
    /\ lpc' = "top"
    /\ UNCHANGED <<pause_loop, verify_pause_loop, config, dicts, timers,
                   edge_reset_timer, now, db, l_it, l_itgen, l_id, l_mixed, l_err,
                   rvars, evars>>

\* while self.running: ... self.running = False after the loop
RunTop ==
    /\ lpc = "top"
    /\ IF running THEN lpc' = "chk_pause" /\ UNCHANGED running
                  ELSE lpc' = "stopped" /\ running' = FALSE
    /\ UNCHANGED <<pause_loop, verify_pause_loop, config, dicts, timers,
                   edge_reset_timer, now, db, l_it, l_itgen, l_id, l_mixed, l_err,
                   rvars, evars>>

\* if self.pause_loop:
RunCheckPause ==
    /\ lpc = "chk_pause"
    /\ lpc' = IF pause_loop THEN "set_verify" ELSE "iter"
    /\ UNCHANGED <<handshake, config, dicts, timers, edge_reset_timer, now,
                   db, l_it, l_itgen, l_id, l_mixed, l_err, rvars, evars>>

\* self.verify_pause_loop = True
RunSetVerify ==
    /\ lpc = "set_verify"
    /\ verify_pause_loop' = TRUE
    /\ lpc' = "wait"
    /\ UNCHANGED <<running, pause_loop, config, dicts, timers,
                   edge_reset_timer, now, db, l_it, l_itgen, l_id, l_mixed, l_err,
                   rvars, evars>>

\* while self.pause_loop: time.sleep(0.1)
RunPauseWait ==
    /\ lpc = "wait"
    /\ ~pause_loop
    /\ lpc' = "iter"
    /\ UNCHANGED <<handshake, config, dicts, timers, edge_reset_timer, now,
                   db, l_it, l_itgen, l_id, l_mixed, l_err, rvars, evars>>

\* for each_cond_id in self.cond_id:   (the measurement part of the tick,
\* which precedes it, touches no field of the table).  The iterator is bound
\* to the dictionary object the field names at this moment; RunAdvance takes
\* its next key or, at its end, finishes the tick (time.sleep(0.1)).
RunAdvance(rest) ==
    IF rest = {}
       THEN lpc' = "top" /\ UNCHANGED <<l_it, l_id>>
       ELSE /\ l_id' = Min(rest)
            /\ l_it' = rest \ {Min(rest)}
            /\ lpc' = "rd_act"

RunIter ==
    /\ lpc = "iter"
    /\ l_itgen' = gen["id"]
    /\ IF DOMAIN cond_id = {}
          THEN lpc' = "top" /\ UNCHANGED <<l_it, l_id>>
          ELSE /\ l_id' = Min(DOMAIN cond_id)
               /\ l_it' = (DOMAIN cond_id) \ {Min(DOMAIN cond_id)}
               /\ lpc' = "rd_act"
    /\ UNCHANGED <<handshake, config, dicts, timers, edge_reset_timer, now,
                   db, l_mixed, l_err, rvars, evars>>

\* if self.cond_is_activated[each_cond_id]:   (a KeyError ends the thread)
RunReadActivated ==
    /\ lpc = "rd_act"
    /\ IF l_id \notin DOMAIN cond_is_activated
          THEN /\ l_err' = TRUE /\ lpc' = "dead"
               /\ UNCHANGED <<l_mixed, l_it, l_id>>
          ELSE /\ l_mixed' = (l_mixed \/ gen["act"] # l_itgen)
               /\ IF cond_is_activated[l_id]
                     THEN lpc' = "rd_sel" /\ UNCHANGED <<l_it, l_id>>
                     ELSE RunAdvance(l_it)
               /\ UNCHANGED l_err
    /\ UNCHANGED <<handshake, config, dicts, timers, edge_reset_timer, now,
                   db, l_itgen, rvars, evars>>

\* The two branch conditions of the rule loop.  The first reads edge_select
\* only for an EDGE device; both branches hold the same two statements, so the
\* rule is evaluated exactly when time.time() > self.cond_timer[each_cond_id]
\* (cond_timer is a time plus a period and never falsy, so the trigger_cond
\* disjunct never decides).
RunReadSelect ==
    /\ lpc = "rd_sel"
    /\ IF \/ (device = "EDGE" /\ l_id \notin DOMAIN cond_if_sensor_edge_select)
          \/ l_id \notin DOMAIN cond_timer
          THEN /\ l_err' = TRUE /\ lpc' = "dead"
               /\ UNCHANGED <<l_mixed, l_it, l_id>>
          ELSE /\ l_mixed' = (l_mixed \/ (device = "EDGE" /\ gen["sel"] # l_itgen))
               /\ IF now > cond_timer[l_id]
                     THEN lpc' = "fire" /\ UNCHANGED <<l_it, l_id>>
                     ELSE RunAdvance(l_it)
               /\ UNCHANGED l_err
    /\ UNCHANGED <<handshake, config, dicts, timers, edge_reset_timer, now,
                   db, l_itgen, rvars, evars>>

\* self.cond_timer[id] = time.time() + self.cond_if_sensor_period[id]
\* self.check_conditionals(id)
RunEvaluate ==
    /\ lpc = "fire"
    /\ IF l_id \notin DOMAIN cond_if_sensor_period
          THEN /\ l_err' = TRUE /\ lpc' = "dead"
               /\ UNCHANGED <<l_mixed, l_it, l_id, cond_timer>>
          ELSE /\ l_mixed' = (l_mixed \/ gen["period"] # l_itgen)
               /\ cond_timer' = Put(cond_timer, l_id,
                                    now + cond_if_sensor_period[l_id])
               /\ RunAdvance(l_it)
               /\ UNCHANGED l_err
    /\ UNCHANGED <<handshake, config, dicts, smtp_wait_timer,
                   edge_reset_timer, now, db, l_itgen, rvars, evars>>

\* stop_controller: self.running = False
stop_controller ==
    /\ running
    /\ running' = FALSE
    /\ UNCHANGED <<pause_loop, verify_pause_loop, config, dicts, timers,
                   edge_reset_timer, now, db, lvars, rvars, evars>>

\* wall-clock time passes
Tock ==
    /\ now < MaxNow
    /\ now' = now + 1
    /\ UNCHANGED <<handshake, config, dicts, timers, edge_reset_timer, db,
                   lvars, rvars, evars>>

-----------------------------------------------------------------------------
(* SensorController.setup_sensor_conditionals(cond_mod), called by the      *)
(* daemon thread after the configuration was changed.                       *)

\* self.pause_loop = True
ReconfRequest(mod, newdb) ==
    /\ rpc = "idle"
    /\ r_calls < MaxReconf
    /\ db' = newdb
    /\ r_mod' = mod
    /\ r_calls' = r_calls + 1
    /\ pause_loop' = TRUE
    /\ rpc' = "wait_verify"
    /\ UNCHANGED <<running, verify_pause_loop, config, dicts, timers,
                   edge_reset_timer, now, lvars, r_rows, r_todo, r_id, evars>>

\* the call without the wait for the loop's acknowledgement
ReconfWaitVerify_NoWait ==
    /\ rpc = "wait_verify"
    /\ rpc' = "clr_id"
    /\ UNCHANGED <<handshake, config, dicts, timers, edge_reset_timer, now,
                   db, lvars, r_mod, r_rows, r_todo, r_id, r_calls, evars>>

\* while not self.verify_pause_loop: time.sleep(0.1)
ReconfWaitVerify ==
    /\ rpc = "wait_verify"
    /\ verify_pause_loop
    /\ rpc' = "clr_id"
    /\ UNCHANGED <<handshake, config, dicts, timers, edge_reset_timer, now,
                   db, lvars, r_mod, r_rows, r_todo, r_id, r_calls, evars>>

\* self.cond_id = {} ... self.cond_if_sensor_setpoint = {}: each statement
\* binds the field to a new, empty dictionary
ReconfClear ==
    /\ rpc \in {"clr_id", "clr_rest", "clr_act", "clr_period", "clr_sel",
                "clr_det"}
    /\ CASE rpc = "clr_id" ->
              /\ cond_id' = EmptyDict
              /\ gen' = [gen EXCEPT !["id"] = r_calls]
              /\ rpc' = "clr_rest"
              /\ UNCHANGED <<cond_rest, cond_is_activated,
                             cond_if_sensor_period, cond_if_sensor_edge_select,
                             cond_if_sensor_edge_detected>>
         [] rpc = "clr_rest" ->
              /\ cond_rest' = EmptyDict
              /\ gen' = [gen EXCEPT !["rest"] = r_calls]
              /\ rpc' = "clr_act"
              /\ UNCHANGED <<cond_id, cond_is_activated,
                             cond_if_sensor_period, cond_if_sensor_edge_select,
                             cond_if_sensor_edge_detected>>
         [] rpc = "clr_act" ->
              /\ cond_is_activated' = EmptyDict
              /\ gen' = [gen EXCEPT !["act"] = r_calls]
              /\ rpc' = "clr_period"
              /\ UNCHANGED <<cond_id, cond_rest,
                             cond_if_sensor_period, cond_if_sensor_edge_select,
                             cond_if_sensor_edge_detected>>
         [] rpc = "clr_period" ->
              /\ cond_if_sensor_period' = EmptyDict
              /\ gen' = [gen EXCEPT !["period"] = r_calls]
              /\ rpc' = "clr_sel"
              /\ UNCHANGED <<cond_id, cond_rest, cond_is_activated,
                             cond_if_sensor_edge_select,
                             cond_if_sensor_edge_detected>>
         [] rpc = "clr_sel" ->
              /\ cond_if_sensor_edge_select' = EmptyDict
              /\ gen' = [gen EXCEPT !["sel"] = r_calls]
              /\ rpc' = "clr_det"
              /\ UNCHANGED <<cond_id, cond_rest, cond_is_activated,
                             cond_if_sensor_period,
                             cond_if_sensor_edge_detected>>
         [] rpc = "clr_det" ->
              /\ cond_if_sensor_edge_detected' = EmptyDict
              /\ gen' = [gen EXCEPT !["det"] = r_calls]
              /\ rpc' = "query"
              /\ UNCHANGED <<cond_id, cond_rest, cond_is_activated,
                             cond_if_sensor_period,
                             cond_if_sensor_edge_select>>
    /\ UNCHANGED <<handshake, config, timers, edge_reset_timer, now, db,
                   lvars, r_mod, r_rows, r_todo, r_id, r_calls, evars>>

\* sensor_conditional = db_retrieve_table_daemon(Conditional)...all(), then
\* the branch on cond_mod: an unrecognized value returns 1 at once
ReconfQuery ==
    /\ rpc = "query"
    /\ r_rows' = db
    /\ IF r_mod \in {"add", "del", "mod"}
          THEN r_todo' = ActiveIds(db) /\ rpc' = "fill"
          ELSE r_todo' = {} /\ rpc' = "idle"
    /\ r_mod' = "read"
    /\ UNCHANGED <<handshake, config, dicts, timers, edge_reset_timer, now,
                   db, lvars, r_id, r_calls, evars>>

\* for each_cond in sensor_conditional:
ReconfNextRule ==
    /\ rpc = "fill"
    /\ IF r_todo = {}
          THEN rpc' = "resume" /\ UNCHANGED <<r_todo, r_id>>
          ELSE /\ r_id' = Min(r_todo)
               /\ r_todo' = r_todo \ {Min(r_todo)}
               /\ rpc' = "f_id"
    /\ UNCHANGED <<handshake, config, dicts, timers, edge_reset_timer, now,
                   db, lvars, r_mod, r_rows, r_calls, evars>>

\* self.cond_id[each_cond.id] = each_cond.id and the assignments after it,
\* one dictionary per step
ReconfFill ==
    /\ rpc \in {"f_id", "f_act", "f_period", "f_sel", "f_det", "f_rest",
                "f_timer", "f_smtp"}
    /\ CASE rpc = "f_id" ->
              /\ cond_id' = Put(cond_id, r_id, r_id)
              /\ rpc' = "f_act"
              /\ UNCHANGED <<cond_is_activated, cond_if_sensor_period,
                             cond_if_sensor_edge_select,
                             cond_if_sensor_edge_detected, cond_rest, timers>>
         [] rpc = "f_act" ->
              /\ cond_is_activated' = Put(cond_is_activated, r_id,
                                          r_rows[r_id].on)
              /\ rpc' = "f_period"
              /\ UNCHANGED <<cond_id, cond_if_sensor_period,
                             cond_if_sensor_edge_select,
                             cond_if_sensor_edge_detected, cond_rest, timers>>
         [] rpc = "f_period" ->
              /\ cond_if_sensor_period' = Put(cond_if_sensor_period, r_id,
                                              r_rows[r_id].period)
              /\ rpc' = "f_sel"
              /\ UNCHANGED <<cond_id, cond_is_activated,
                             cond_if_sensor_edge_select,
                             cond_if_sensor_edge_detected, cond_rest, timers>>
         [] rpc = "f_sel" ->
              /\ cond_if_sensor_edge_select' =
                     Put(cond_if_sensor_edge_select, r_id, r_rows[r_id].sel)
              /\ rpc' = "f_det"
              /\ UNCHANGED <<cond_id, cond_is_activated, cond_if_sensor_period,
                             cond_if_sensor_edge_detected, cond_rest, timers>>
         [] rpc = "f_det" ->
              /\ cond_if_sensor_edge_detected' =
                     Put(cond_if_sensor_edge_detected, r_id, r_rows[r_id].det)
              /\ rpc' = "f_rest"
              /\ UNCHANGED <<cond_id, cond_is_activated, cond_if_sensor_period,
                             cond_if_sensor_edge_select, cond_rest, timers>>
         [] rpc = "f_rest" ->
              /\ cond_rest' = Put(cond_rest, r_id, r_id)
              /\ rpc' = "f_timer"
              /\ UNCHANGED <<cond_id, cond_is_activated, cond_if_sensor_period,
                             cond_if_sensor_edge_select,
                             cond_if_sensor_edge_detected, timers>>
         [] rpc = "f_timer" ->
              /\ cond_timer' = Put(cond_timer, r_id,
                                   now + r_rows[r_id].period)
              /\ rpc' = "f_smtp"
              /\ UNCHANGED <<cond_id, cond_is_activated, cond_if_sensor_period,
                             cond_if_sensor_edge_select,
                             cond_if_sensor_edge_detected, cond_rest,
                             smtp_wait_timer>>
         [] rpc = "f_smtp" ->
              /\ smtp_wait_timer' = Put(smtp_wait_timer, r_id,
                                        now + SmtpWindow)
              /\ rpc' = "fill"
              /\ UNCHANGED <<cond_id, cond_is_activated, cond_if_sensor_period,
                             cond_if_sensor_edge_select,
                             cond_if_sensor_edge_detected, cond_rest,
                             cond_timer>>
    /\ UNCHANGED <<handshake, config, gen, edge_reset_timer, now, db,
                   lvars, r_mod, r_rows, r_todo, r_id, r_calls, evars>>

\* self.pause_loop = False
ReconfResume ==
    /\ rpc = "resume"
    /\ pause_loop' = FALSE
    /\ rpc' = "unverify"
    /\ UNCHANGED <<running, verify_pause_loop, config, dicts, timers,
                   edge_reset_timer, now, db, lvars, r_mod, r_rows, r_todo,
                   r_id, r_calls, evars>>

\* self.verify_pause_loop = False
ReconfUnverify ==
    /\ rpc = "unverify"
    /\ verify_pause_loop' = FALSE
    /\ rpc' = "idle"
    /\ UNCHANGED <<running, pause_loop, config, dicts, timers,
                   edge_reset_timer, now, db, lvars, r_mod, r_rows, r_todo,
                   r_id, r_calls, evars>>

-----------------------------------------------------------------------------
(* SensorController.edge_detected(pin): the GPIO callback of an EDGE device, *)
(* run by the interrupt thread from add_event_detect (in run, before the     *)
(* loop) until GPIO.cleanup (after the loop).                                *)

\* rising_or_falling from the pin level and the edge policy of the device
Direction(policy, gpio_state) ==
    IF policy = "rising" \/ (policy = "both" /\ gpio_state = 1) THEN 1 ELSE -1

\* gpio_state = GPIO.input(...); the reset-period test; write_influxdb_value;
\* for each_cond_id in self.cond_id: the iterator is bound to the dictionary
\* object the field names at this moment
EdgeEvent(gpio_state) ==
    /\ epc = "idle"
    /\ device = "EDGE"
    /\ lpc \notin {"start", "stopped"}
    /\ IF now > edge_reset_timer
          THEN /\ edge_reset_timer' = now + ResetPeriod
               /\ e_dir' = Direction(switch_edge, gpio_state)
               /\ e_it' = DOMAIN cond_id
               /\ e_itgen' = gen["id"]
               /\ e_itsize' = Cardinality(DOMAIN cond_id)
               /\ epc' = "next"
          ELSE UNCHANGED <<edge_reset_timer, e_dir, e_it, e_itgen, e_itsize,
                           epc>>
    /\ UNCHANGED <<handshake, config, dicts, timers, now, db, lvars, rvars,
                   e_id, e_mixed, e_err>>

\* one step of the iterator: a dictionary that grew under it raises
\* RuntimeError (dictionary changed size during iteration)
EdgeNext ==
    /\ epc = "next"
    /\ IF gen["id"] = e_itgen /\ Cardinality(DOMAIN cond_id) # e_itsize
          THEN /\ e_err' = TRUE /\ epc' = "idle"
               /\ UNCHANGED <<e_it, e_id>>
          ELSE IF e_it = {}
                  THEN epc' = "idle" /\ UNCHANGED <<e_it, e_id, e_err>>
                  ELSE /\ e_id' = Min(e_it)
                       /\ e_it' = e_it \ {Min(e_it)}
                       /\ epc' = "rd_act"
                       /\ UNCHANGED e_err
    /\ UNCHANGED <<handshake, config, dicts, timers, edge_reset_timer, now,
                   db, lvars, rvars, e_itgen, e_itsize, e_dir, e_mixed>>

\* self.cond_is_activated[each_cond_id]   (a KeyError ends the callback)
EdgeReadActivated ==
    /\ epc = "rd_act"
    /\ IF e_id \notin DOMAIN cond_is_activated
          THEN e_err' = TRUE /\ epc' = "idle" /\ UNCHANGED e_mixed
          ELSE /\ e_mixed' = (e_mixed \/ gen["act"] # e_itgen)
               /\ epc' = IF cond_is_activated[e_id] THEN "rd_sel" ELSE "next"
               /\ UNCHANGED e_err
    /\ UNCHANGED <<handshake, config, dicts, timers, edge_reset_timer, now,
                   db, lvars, rvars, e_it, e_itgen, e_itsize, e_id, e_dir>>

\* self.cond_if_sensor_edge_select[each_cond_id] == 'edge'
EdgeReadSelect ==
    /\ epc = "rd_sel"
    /\ IF e_id \notin DOMAIN cond_if_sensor_edge_select
          THEN e_err' = TRUE /\ epc' = "idle" /\ UNCHANGED e_mixed
          ELSE /\ e_mixed' = (e_mixed \/ gen["sel"] # e_itgen)
               /\ epc' = IF cond_if_sensor_edge_select[e_id] = "edge"
                            THEN "rd_det" ELSE "next"
               /\ UNCHANGED e_err
    /\ UNCHANGED <<handshake, config, dicts, timers, edge_reset_timer, now,
                   db, lvars, rvars, e_it, e_itgen, e_itsize, e_id, e_dir>>

\* self.cond_if_sensor_edge_detected[each_cond_id] against rising_or_falling,
\* then self.check_conditionals(each_cond_id)
EdgeReadDetected ==
    /\ epc = "rd_det"
    /\ IF e_id \notin DOMAIN cond_if_sensor_edge_detected
          THEN e_err' = TRUE /\ epc' = "idle" /\ UNCHANGED e_mixed
          ELSE /\ e_mixed' = (e_mixed \/ gen["det"] # e_itgen)
               /\ epc' = "next"
               /\ UNCHANGED e_err
    /\ UNCHANGED <<handshake, config, dicts, timers, edge_reset_timer, now,
                   db, lvars, rvars, e_it, e_itgen, e_itsize, e_id, e_dir>>

-----------------------------------------------------------------------------
(* Hardware-bus locks.  Each controller is a thread of the daemon; the lock  *)
(* files /var/lock/mycodo_multiplexer_0x.. and /var/lock/mycodo_adc_bus..    *)
(* are named by bus and address, so controllers on the same multiplexer and  *)
(* the same converter address share them.  lockfile.LockFile is the          *)
(* library's: i_am_locking, acquire (LockTimeout after the timeout,          *)
(* LockFailed when the lock cannot be made), break_lock, and release         *)
(* (NotLocked / NotMyLock when the caller does not hold the lock).           *)

Controllers == {"c1", "c2"}

Locks == {"mux", "adc"}

\* a competing process that takes a lock and never releases it
Ext == "ext"

Free == "free"

\* self.lock[lockfile].acquire(timeout=60)
LockTimeout == 60

\* the granularity of the clock of a waiting acquire
WaitStep == LockTimeout \div 2

Uses(c, l) == IF l = "mux" THEN has_mux[c] ELSE has_adc[c]

LockInit ==
    /\ has_mux \in [Controllers -> BOOLEAN]
    /\ has_adc \in [Controllers -> BOOLEAN]
    /\ has_mux["c1"]
    /\ holder \in [Locks -> {Free, Ext}]
    /\ holder["adc"] = Free
    /\ upc = [c \in Controllers |-> "idle"]
    /\ cur = [c \in Controllers |-> "mux"]
    /\ waited = [c \in Controllers |-> 0]
    /\ early = [c \in Controllers |-> FALSE]
    /\ meas = [c \in Controllers |-> FALSE]
    /\ updateSuccess = [c \in Controllers |-> FALSE]
    /\ failed = [c \in Controllers |-> FALSE]
    /\ did_read = [c \in Controllers |-> FALSE]
    /\ breaks = [c \in Controllers |-> 0]
    /\ entry_ext = [c \in Controllers |-> FALSE]
    /\ env_failed = [c \in Controllers |-> FALSE]

\* The lock model at rest, for the specifications that do not move it.
LockIdle ==
    /\ has_mux = [c \in Controllers |-> FALSE]
    /\ has_adc = [c \in Controllers |-> FALSE]
    /\ holder = [l \in Locks |-> Free]
    /\ upc = [c \in Controllers |-> "idle"]
    /\ cur = [c \in Controllers |-> "mux"]
    /\ waited = [c \in Controllers |-> 0]
    /\ early = [c \in Controllers |-> FALSE]
    /\ meas = [c \in Controllers |-> FALSE]
    /\ updateSuccess = [c \in Controllers |-> FALSE]
    /\ failed = [c \in Controllers |-> FALSE]
    /\ did_read = [c \in Controllers |-> FALSE]
    /\ breaks = [c \in Controllers |-> 0]
    /\ entry_ext = [c \in Controllers |-> FALSE]
    /\ env_failed = [c \in Controllers |-> FALSE]

lconfig == <<built, tvars, mvars, pvars, avars>>
history == <<failed, did_read, breaks, entry_ext, env_failed>>

\* entry of setup_lock(.., lockfile): self.lock[lockfile] = LockFile(lockfile)
EnterSetupLock(c, l) ==
    /\ upc' = [upc EXCEPT ![c] = "check"]
    /\ cur' = [cur EXCEPT ![c] = l]
    /\ waited' = [waited EXCEPT ![c] = 0]
    /\ breaks' = [breaks EXCEPT ![c] = 0]
    /\ entry_ext' = [entry_ext EXCEPT ![c] = (holder[l] = Ext)]
    /\ env_failed' = [env_failed EXCEPT ![c] = FALSE]

\* update_measure, up to its first lock: self.lock_multiplexer() takes the
\* multiplexer lock if a multiplexer is set; otherwise the ADC lock or the
\* driver read comes next
UpdateMeasureStart(c) ==
    /\ upc[c] = "idle"
    /\ failed' = [failed EXCEPT ![c] = FALSE]
    /\ did_read' = [did_read EXCEPT ![c] = FALSE]
    /\ early' = [early EXCEPT ![c] = FALSE]
    /\ IF has_mux[c] THEN EnterSetupLock(c, "mux")
       ELSE IF has_adc[c] THEN EnterSetupLock(c, "adc")
       ELSE /\ upc' = [upc EXCEPT ![c] = "read"]
            /\ UNCHANGED <<cur, waited, breaks, entry_ext, env_failed>>
    /\ UNCHANGED <<lconfig, holder, meas, updateSuccess>>

\* what follows a setup_lock that returned (1, "Success"): for the
\* multiplexer lock multiplexer.setup(chan), whose failure only marks the
\* update unsuccessful, then the ADC lock or the read; for the ADC lock the
\* read
AfterLocked(c, chan_ok) ==
    IF cur[c] = "mux"
       THEN /\ updateSuccess' = [updateSuccess EXCEPT
                                    ![c] = IF chan_ok THEN @ ELSE FALSE]
            /\ IF has_adc[c]
                  THEN EnterSetupLock(c, "adc")
                  ELSE /\ upc' = [upc EXCEPT ![c] = "read"]
                       /\ UNCHANGED <<cur, waited, breaks, entry_ext,
                                      env_failed>>
       ELSE /\ upc' = [upc EXCEPT ![c] = "read"]
            /\ UNCHANGED <<updateSuccess, cur, waited, breaks, entry_ext,
                           env_failed>>

\* while not self.lock[lockfile].i_am_locking(): ... return 1, "Success"
SetupLockCheck(c) ==
    /\ upc[c] = "check"
    /\ IF holder[cur[c]] = c
          THEN \E chan_ok \in BOOLEAN : AfterLocked(c, chan_ok)
          ELSE /\ upc' = [upc EXCEPT ![c] = "acq"]
               /\ waited' = [waited EXCEPT ![c] = 0]
               /\ UNCHANGED <<updateSuccess, cur, breaks, entry_ext,
                              env_failed>>
    /\ UNCHANGED <<lconfig, holder, early, meas, failed, did_read>>

\* self.lock[lockfile].acquire(timeout=60) takes the free lock
AcquireTimed(c) ==
    /\ upc[c] = "acq"
    /\ holder[cur[c]] = Free
    /\ holder' = [holder EXCEPT ![cur[c]] = c]
    /\ upc' = [upc EXCEPT ![c] = "check"]
    /\ UNCHANGED <<lconfig, cur, waited, early, meas, updateSuccess, history>>

\* ... or waits while another holds it
AcquireWait ==
    /\ \E c \in Controllers :
          upc[c] = "acq" /\ holder[cur[c]] # Free /\ waited[c] < LockTimeout
    /\ waited' = [c \in Controllers |->
                    IF upc[c] = "acq" /\ holder[cur[c]] # Free
                                      /\ waited[c] < LockTimeout
                       THEN waited[c] + WaitStep ELSE waited[c]]
    /\ UNCHANGED <<lconfig, holder, upc, cur, early, meas, updateSuccess,
                   history>>

\* acquire giving up at once (a timeout of 0)
AcquireTimeout_NoWait(c) ==
    /\ upc[c] = "acq"
    /\ holder[cur[c]] # Free
    /\ upc' = [upc EXCEPT ![c] = "brk"]
    /\ UNCHANGED <<lconfig, holder, cur, waited, early, meas, updateSuccess,
                   history>>

\* ... and raises LockTimeout after 60 seconds: the except clause follows
AcquireTimeout(c) ==
    /\ upc[c] = "acq"
    /\ holder[cur[c]] # Free
    /\ waited[c] >= LockTimeout
    /\ upc' = [upc EXCEPT ![c] = "brk"]
    /\ UNCHANGED <<lconfig, holder, cur, waited, early, meas, updateSuccess,
                   history>>

\* ... or raises LockFailed (the lock file cannot be made): the same except
\* clause follows
AcquireFailed(c) ==
    /\ upc[c] = "acq"
    /\ env_failed' = [env_failed EXCEPT ![c] = TRUE]
    /\ upc' = [upc EXCEPT ![c] = "brk"]
    /\ UNCHANGED <<lconfig, holder, cur, waited, early, meas, updateSuccess,
                   failed, did_read, breaks, entry_ext>>

\* except Exception: self.lock[lockfile].break_lock()
BreakLock(c) ==
    /\ upc[c] = "brk"
    /\ holder' = [holder EXCEPT ![cur[c]] = Free]
    /\ breaks' = [breaks EXCEPT ![c] = IF @ < 2 THEN @ + 1 ELSE @]
    /\ upc' = [upc EXCEPT ![c] = "acq2"]
    /\ UNCHANGED <<lconfig, cur, waited, early, meas, updateSuccess, failed,
                   did_read, entry_ext, env_failed>>

\* self.lock[lockfile].acquire(): no timeout, it waits until the lock is free
AcquireAfterBreak(c) ==
    /\ upc[c] = "acq2"
    /\ holder[cur[c]] = Free
    /\ holder' = [holder EXCEPT ![cur[c]] = c]
    /\ upc' = [upc EXCEPT ![c] = "check"]
    /\ UNCHANGED <<lconfig, cur, waited, early, meas, updateSuccess, history>>

\* ... or raises LockFailed: setup_lock returns (0, "Multiplexer Fail: ..").
\* lock_multiplexer then sets updateSuccess False and returns 1, which
\* update_measure does not look at: it goes on to the ADC lock or the read.
\* For the ADC lock update_measure sets updateSuccess False and returns 1
\* from inside the try: the finally clause runs next.
SetupLockFails(c) ==
    /\ upc[c] = "acq2"
    /\ env_failed' = [env_failed EXCEPT ![c] = TRUE]
    /\ failed' = [failed EXCEPT ![c] = TRUE]
    /\ updateSuccess' = [updateSuccess EXCEPT ![c] = FALSE]
    /\ IF cur[c] = "mux"
          THEN IF has_adc[c]
                  THEN /\ upc' = [upc EXCEPT ![c] = "check"]
                       /\ cur' = [cur EXCEPT ![c] = "adc"]
                       /\ waited' = [waited EXCEPT ![c] = 0]
                       /\ breaks' = [breaks EXCEPT ![c] = 0]
                       /\ entry_ext' = [entry_ext EXCEPT
                                           ![c] = (holder["adc"] = Ext)]
                       /\ UNCHANGED early
                  ELSE /\ upc' = [upc EXCEPT ![c] = "read"]
                       /\ UNCHANGED <<cur, waited, breaks, entry_ext, early>>
          ELSE /\ upc' = [upc EXCEPT ![c] = "rel_adc"]
               /\ early' = [early EXCEPT ![c] = TRUE]
               /\ UNCHANGED <<cur, waited, breaks, entry_ext>>
    /\ UNCHANGED <<lconfig, holder, meas, did_read>>

\* measurements = self.adc.next() / self.measure_sensor.next(): a reading, or
\* none (None returned, StopIteration or another exception, all caught)
DriverRead(c, ok) ==
    /\ upc[c] = "read"
    /\ meas' = [meas EXCEPT ![c] = ok]
    /\ did_read' = [did_read EXCEPT ![c] = TRUE]
    /\ upc' = [upc EXCEPT ![c] = IF has_adc[c] THEN "rel_adc" ELSE "rel_mux"]
    /\ UNCHANGED <<lconfig, holder, cur, waited, early, updateSuccess,
                   failed, breaks, entry_ext, env_failed>>

\* update_measure without the finally clause: the ADC lock is kept
ReleaseAdc_Kept(c) ==
    /\ upc[c] = "rel_adc"
    /\ upc' = [upc EXCEPT ![c] = IF early[c] THEN "idle" ELSE "rel_mux"]
    /\ UNCHANGED <<lconfig, holder, cur, waited, early, meas, updateSuccess,
                   history>>

\* finally: self.release_lock(.., self.adc_lock_file).  release() of a lock
\* the caller does not hold raises; nothing in update_measure or in the loop
\* of run catches it, so it ends the thread.  After the early return the
\* function returns 1 without reaching unlock_multiplexer.
ReleaseAdc(c) ==
    /\ upc[c] = "rel_adc"
    /\ IF holder["adc"] = c
          THEN /\ holder' = [holder EXCEPT !["adc"] = Free]
               /\ upc' = [upc EXCEPT ![c] = IF early[c] THEN "idle"
                                                        ELSE "rel_mux"]
          ELSE /\ upc' = [upc EXCEPT ![c] = "raised"]
               /\ UNCHANGED holder
    /\ UNCHANGED <<lconfig, cur, waited, early, meas, updateSuccess, history>>

\* self.unlock_multiplexer(), then updateSuccess from the reading
UnlockMultiplexer(c) ==
    /\ upc[c] = "rel_mux"
    /\ IF has_mux[c] /\ holder["mux"] # c
          THEN /\ upc' = [upc EXCEPT ![c] = "raised"]
               /\ UNCHANGED <<holder, updateSuccess>>
          ELSE /\ holder' = IF has_mux[c] THEN [holder EXCEPT !["mux"] = Free]
                                          ELSE holder
               /\ updateSuccess' = [updateSuccess EXCEPT ![c] = meas[c]]
               /\ upc' = [upc EXCEPT ![c] = "idle"]
    /\ UNCHANGED <<lconfig, cur, waited, early, meas, history>>

LockNext ==
    \/ \E c \in Controllers :
          \/ UpdateMeasureStart(c) \/ SetupLockCheck(c) \/ AcquireTimed(c)
          \/ AcquireTimeout(c) \/ AcquireFailed(c) \/ BreakLock(c)
          \/ AcquireAfterBreak(c) \/ SetupLockFails(c)
          \/ \E ok \in BOOLEAN : DriverRead(c, ok)
          \/ ReleaseAdc(c) \/ UnlockMultiplexer(c)
    \/ AcquireWait

-----------------------------------------------------------------------------
(* update_measure of a controller whose locks nobody else uses: each call   *)
(* takes and releases them, so a call is one step.  The driver's next()     *)
(* returns a reading, returns None, raises StopIteration or raises another  *)
(* exception.  Voltages and units are floats in the code; the model keeps   *)
(* a converted value as an exact fraction <<numerator, denominator>>.       *)

\* the controller of this model
Self == "c1"

\* no converted value: a fraction with denominator 0
NoUnits == <<0, 0>>

\* self.measurement before the first successful read
NoMeasurement == [read |-> FALSE, value |-> 0, units |-> NoUnits]

Outcomes == {"ok", "none", "stop", "exc"}

\* adc_volts_min / adc_volts_max of the sensor record
VoltLimits == {0, 2}
\* adc_units_min / adc_units_max of the sensor record
UnitLimits == {1, 3}
\* the value the driver returns (measurements['voltage'] of an ADC: below,
\* at, inside and above the limits)
Voltages == {0 - 1, 0, 1, 2, 3}

Abs(x) == IF x < 0 THEN 0 - x ELSE x

\* the voltage kept within the min/max bounds
MeasuredVoltage(v) ==
    IF v < adc_volts_min THEN adc_volts_min
    ELSE IF v > adc_volts_max THEN adc_volts_max
    ELSE v

\* a conversion that ignores adc_inverse_unit_scale
ConvertedUnits_NoInverse(v) ==
    LET diff_voltage == Abs(adc_volts_max - adc_volts_min)
        diff_units == Abs(adc_units_max - adc_units_min)
        percent_num == MeasuredVoltage(v) - adc_volts_min
    IN  adc_units_min * diff_voltage + diff_units * percent_num

\* converted_units, as a numerator over diff_voltage
ConvertedUnits(v) ==
    LET diff_voltage == Abs(adc_volts_max - adc_volts_min)
        diff_units == Abs(adc_units_max - adc_units_min)
        percent_num == MeasuredVoltage(v) - adc_volts_min
    IN  IF adc_inverse_unit_scale
           THEN adc_units_max * diff_voltage - diff_units * percent_num
           ELSE adc_units_min * diff_voltage + diff_units * percent_num

\* the conversion without its last three branches
StoredUnits_Unclamped(num, den) == <<num, den>>

\* Ensure the units stay within the min/max bounds
StoredUnits(num, den) ==
    IF num < adc_units_min * den THEN <<adc_units_min, 1>>
    ELSE IF num > adc_units_max * den THEN <<adc_units_max, 1>>
    ELSE <<num, den>>

\* the dictionary update_measure ends with for an ADC reading of v volts:
\* with adc_volts_min = adc_volts_max the division raises ZeroDivisionError,
\* which the except clause logs, and the dictionary keeps the voltage only
AdcMeasurements(v) ==
    LET diff_voltage == Abs(adc_volts_max - adc_volts_min)
    IN  [read |-> TRUE, value |-> v,
         units |-> IF diff_voltage = 0 THEN NoUnits
                   ELSE StoredUnits(ConvertedUnits(v), diff_voltage)]

\* notification one StopIteration earlier
Escalates_Early(counter) == counter > 1

\* if self.stop_iteration_counter > 2:
Escalates(counter) == counter > 2

MeasureInit ==
    /\ adc \in BOOLEAN
    /\ adc_volts_min \in (IF adc THEN VoltLimits ELSE {0})
    /\ adc_volts_max \in (IF adc THEN VoltLimits ELSE {0})
    /\ adc_units_min \in (IF adc THEN UnitLimits ELSE {0})
    /\ adc_units_max \in (IF adc THEN UnitLimits ELSE {0})
    /\ adc_inverse_unit_scale \in (IF adc THEN BOOLEAN ELSE {FALSE})
    /\ stop_iteration_counter = 0
    /\ measurement = NoMeasurement
    /\ reads = <<>>
    /\ logs = <<>>

\* The driver-read model at rest, for the specifications that do not move it.
MeasureIdle ==
    /\ adc = FALSE
    /\ adc_volts_min = 0 /\ adc_volts_max = 0
    /\ adc_units_min = 0 /\ adc_units_max = 0
    /\ adc_inverse_unit_scale = FALSE
    /\ stop_iteration_counter = 0
    /\ measurement = NoMeasurement
    /\ reads = <<>>
    /\ logs = <<>>

\* the device record and the lock variables, for the tick model
config_t == <<device, switch_edge>>
kvars_t == <<built, holder, upc, cur, waited, early, meas, failed,
             did_read, breaks, entry_ext, env_failed>>

adc_config == <<adc, adc_volts_min, adc_volts_max, adc_units_min,
                adc_units_max, adc_inverse_unit_scale>>

\* a counter that the notification does not reset
CounterAfter_NoReset(out) ==
    IF adc THEN stop_iteration_counter
    ELSE CASE out \in {"ok", "none"} -> 0
           [] out = "stop" -> stop_iteration_counter + 1
           [] OTHER -> stop_iteration_counter

\* stop_iteration_counter after a read of the given outcome: the ADC branch
\* does not touch it; otherwise a return of next() resets it, StopIteration
\* counts and resets at the notification, another exception leaves it
CounterAfter(out) ==
    IF adc THEN stop_iteration_counter
    ELSE CASE out \in {"ok", "none"} -> 0
           [] out = "stop" ->
                IF Escalates(stop_iteration_counter + 1) THEN 0
                ELSE stop_iteration_counter + 1
           [] OTHER -> stop_iteration_counter

\* the "StopIteration raised. Possibly could not read sensor." lines logged
LoggedBy(out) ==
    IF ~adc /\ out = "stop" /\ Escalates(stop_iteration_counter + 1)
       THEN 1 ELSE 0

\* if self.device_recognized and measurements is not None: the driver
\* returned a reading
UpdateSuccess(out) == out = "ok"

\* self.measurement / self.updateSuccess at the end of update_measure:
\* set from the reading when next() returned one, else updateSuccess False
\* and the previous measurement kept
ReadResult(out, v) ==
    /\ measurement' = IF out # "ok" THEN measurement
                      ELSE IF adc THEN AdcMeasurements(v)
                      ELSE [read |-> TRUE, value |-> v, units |-> NoUnits]
    /\ updateSuccess' = [updateSuccess EXCEPT ![Self] = UpdateSuccess(out)]

update_measure(out, v) ==
    /\ Len(reads) < MaxReads
    /\ stop_iteration_counter' = CounterAfter(out)
    /\ ReadResult(out, v)
    /\ reads' = Append(reads, out)
    /\ logs' = Append(logs, LoggedBy(out))
    /\ UNCHANGED <<tvars, pvars, avars, adc_config, built, holder, upc,
                   cur, waited, early, meas, failed, did_read, breaks,
                   entry_ext, env_failed>>

MeasureNext == \E out \in Outcomes, v \in Voltages : update_measure(out, v)

-----------------------------------------------------------------------------
(* The tick loop of a periodic device, one iteration of the while loop of   *)
(* run per step, an iteration each second (the code sleeps 0.1 s between    *)
(* iterations; the model's clock counts whole seconds).  No reconfiguration *)
(* is requested, so the pause test of the iteration is false.               *)

\* if_sensor_period of the rule
RulePeriods == {30, 60}
\* sensor.period
DevicePeriods == {60}
\* the values the driver returns for the rule's measurement
Readings == {0, 29, 30, 31}
Setpoints == {30}
Directions == {"above", "below"}
PreRelaySetups == BOOLEAN
\* sensor.pre_relay_duration of a pre relay that is set up, in seconds
PreRelayDurations == {2}
\* a device name that no branch of the constructor's dispatch knows
Unrecognized == "NOT_A_DEVICE"
TickDevices == {"SENSOR", Unrecognized}
\* what the evaluation of a rule raises into run: nothing, an error of the
\* database or of the rule's actions, or requests.ConnectionError of
\* read_last_influxdb
Raises == {"none", "Exception", "ConnectionError"}

TickDb(p) == [i \in RuleIds |-> IF i = 1 THEN Row("state", "both", p) ELSE Off]

NoSample == [n |-> 0, time |-> 0, value |-> 0]

NoEvaluation ==
    [at |-> 0, found |-> FALSE, seen |-> 0, fired |-> FALSE, sn |-> 0,
     stime |-> 0]

\* the controller on entering the device dispatch of its constructor, its
\* sensor.period one of periods
TickInitFor(periods) ==
    /\ device \in TickDevices /\ switch_edge = "both"
    /\ db \in {TickDb(p) : p \in RulePeriods}
    /\ now = 0 /\ running = FALSE /\ pause_loop = FALSE
    /\ verify_pause_loop = FALSE
    /\ cond_id = [i \in ActiveIds(db) |-> i]
    /\ cond_is_activated = [i \in ActiveIds(db) |-> db[i].on]
    /\ cond_if_sensor_period = [i \in ActiveIds(db) |-> db[i].period]
    /\ cond_if_sensor_edge_select = [i \in ActiveIds(db) |-> db[i].sel]
    /\ cond_if_sensor_edge_detected = [i \in ActiveIds(db) |-> db[i].det]
    /\ cond_rest = [i \in ActiveIds(db) |-> i]
    /\ cond_timer = [i \in ActiveIds(db) |-> now + db[i].period]
    /\ smtp_wait_timer = [i \in ActiveIds(db) |-> now + SmtpWindow]
    /\ edge_reset_timer = now
    /\ gen = [f \in Fields |-> 0]
    /\ lpc = "init" /\ l_it = {} /\ l_itgen = 0 /\ l_id = 0 /\ l_mixed = FALSE
    /\ l_err = FALSE
    /\ rpc = "idle" /\ r_mod = "setup" /\ r_rows = db /\ r_todo = {}
    /\ r_id = 0 /\ r_calls = 0
    /\ epc = "idle" /\ e_it = {} /\ e_itgen = 0 /\ e_itsize = 0 /\ e_id = 0
    /\ e_dir = 0 /\ e_mixed = FALSE /\ e_err = FALSE
    /\ period \in periods
    /\ next_measurement = now
    /\ get_new_measurement = FALSE
    /\ trigger_cond = FALSE
    /\ pre_relay_setup \in PreRelaySetups
    /\ pre_relay_duration \in (IF pre_relay_setup THEN PreRelayDurations
                                                  ELSE {0})
    /\ pre_relay_activated = FALSE
    /\ pre_relay_timer = now
    /\ if_sensor_direction \in Directions
    /\ if_sensor_setpoint \in Setpoints
    /\ influx = NoSample
    /\ acquired = <<>>
    /\ firings = <<>>
    /\ ev = NoEvaluation
    /\ first_eval = 0
    /\ run_log = "none"
    /\ due_at = 0
    /\ relay_starts = <<>>
    /\ measured = <<>>
    /\ edges = <<>>
    /\ ignored = <<>>

TickInit == TickInitFor(DevicePeriods)

\* The tick model at rest, for the specifications that do not move it.
TickIdle ==
    /\ period = 0
    /\ next_measurement = 0
    /\ get_new_measurement = FALSE
    /\ trigger_cond = FALSE
    /\ pre_relay_setup = FALSE
    /\ pre_relay_duration = 0
    /\ pre_relay_activated = FALSE
    /\ pre_relay_timer = 0
    /\ if_sensor_direction = "above"
    /\ if_sensor_setpoint = 0
    /\ influx = NoSample
    /\ acquired = <<>>
    /\ firings = <<>>
    /\ ev = NoEvaluation
    /\ first_eval = 0
    /\ run_log = "none"
    /\ due_at = 0
    /\ relay_starts = <<>>
    /\ measured = <<>>
    /\ edges = <<>>
    /\ ignored = <<>>

\* get_last_measurement with a window twice as long
LastWindow_Doubled(p) == p * 3

\* int(self.period * 1.5)
LastWindow(p) == (p * 3) \div 2

\* the comparison of a rule that also fires at the setpoint
Exceeds_OrEqual(direction, last, setpoint) ==
    \/ direction = "above" /\ last >= setpoint
    \/ direction = "below" /\ last <= setpoint

\* (direction == 'above' and last_measurement > setpoint) or
\* (direction == 'below' and last_measurement < setpoint)
Exceeds(direction, last, setpoint) ==
    \/ direction = "above" /\ last > setpoint
    \/ direction = "below" /\ last < setpoint

\* a rule that compares whatever sample the store holds
Fires_AnySample(st, t) ==
    /\ st.value # 0
    /\ Exceeds(if_sensor_direction, st.value, if_sensor_setpoint)

\* get_last_measurement at time t over the store st: the latest sample if it
\* is younger than the window, else None
LastFound(st, t) == st.n > 0 /\ st.time > t - LastWindow(period)

\* check_conditionals up to its actions: "last_measurement and (...)" is
\* false for None and for a reading of 0
Fires(st, t) ==
    /\ LastFound(st, t)
    /\ st.value # 0
    /\ Exceeds(if_sensor_direction, st.value, if_sensor_setpoint)

\* a rule loop that does not look at the timer
Due_TimerIgnored(i, t, trig) == cond_is_activated[i]

\* the condition of the rule loop under which rule i is evaluated at time t
Due(i, t, trig) ==
    /\ cond_is_activated[i]
    /\ \/ cond_timer[i] = 0 /\ trig
       \/ t > cond_timer[i]

\* a loop that polls every device
Polled_Every(dev) == TRUE

\* if self.device not in ['EDGE']:
Polled(dev) == dev \notin {"EDGE"}

\* cond.if_sensor_gpio_state of a rule on the pin's state
GpioState == 1

\* check_conditionals of a rule without if_sensor_direction: a rule on an
\* edge goes on to its actions, a rule on the state does when the pin has
\* the state of the rule
PinRuleFires(i, level) ==
    \/ cond_if_sensor_edge_select[i] = "edge"
    \/ cond_if_sensor_edge_select[i] = "state" /\ level = GpioState

\* the time up to which the model follows the loop
Horizon == IF device = "EDGE" THEN MaxSwitchTime ELSE MaxTime

\* a next deadline half a period away
NextDeadline_HalfPeriod(t) == t + period \div 2

\* self.next_measurement = time.time() + self.period
NextDeadline(t) == t + period

\* a constructor whose dispatch accepts every device name
Construct_NoRaise ==
    /\ lpc = "init"
    /\ lpc' = "start"
    /\ running' = FALSE
    /\ UNCHANGED <<pause_loop, verify_pause_loop, config, dicts, timers,
                   edge_reset_timer, now, db, l_it, l_itgen, l_id, l_mixed,
                   l_err, rvars, evars>>

\* the device dispatch of the constructor: a known device gets its driver
\* and the constructor ends with running False; any other name raises
Construct ==
    /\ lpc = "init"
    /\ IF device \in Devices
          THEN lpc' = "start" /\ running' = FALSE
          ELSE lpc' = "ctor_raised" /\ UNCHANGED running
    /\ UNCHANGED <<pause_loop, verify_pause_loop, config, dicts, timers,
                   edge_reset_timer, now, db, l_it, l_itgen, l_id, l_mixed,
                   l_err, rvars, evars>>

\* a store that is handed the kept measurement after every read
Handed_Always(success) == TRUE

\* add_measure_influxdb: the writer thread is started if self.updateSuccess
Handed(success) == success

\* One iteration of the while loop of run.  When the evaluation of rule 1
\* raises (exc), the exception leaves the loop: the try of run encloses the
\* while, so the except clause logs and run returns.
RunTick(out, r, landed, exc, level) ==
    LET t == now + 1
        signal == /\ Polled(device)
                  /\ t > next_measurement /\ ~get_new_measurement
        wanted == Polled(device) /\ (get_new_measurement \/ signal)
        start_relay == wanted /\ pre_relay_setup /\ ~pre_relay_activated
        activated == pre_relay_activated \/ start_relay
        relay_timer == IF start_relay THEN t + pre_relay_duration
                                      ELSE pre_relay_timer
        measure == wanted /\ \/ (pre_relay_setup /\ activated /\ t < relay_timer)
                             \/ ~pre_relay_setup
        sample == [n |-> influx.n + 1, time |-> t, value |-> r]
        written == measure /\ Handed(UpdateSuccess(out))
        \* the store the rules of this iteration read: the writer thread
        \* started by add_measure_influxdb may or may not have finished
        store == IF written /\ landed THEN sample ELSE influx
        due == {i \in DOMAIN cond_id : Due(i, t, trigger_cond \/ signal)}
        fires == IF if_sensor_direction \in Directions
                    THEN Fires(store, t) ELSE PinRuleFires(1, level)
    IN  /\ now < Horizon
        /\ lpc = "top"
        /\ if_sensor_direction \in Directions \/ 1 \notin due => level = 0
        /\ running /\ ~pause_loop
        /\ exc # "none" => 1 \in due
        /\ ~measure => out = "none" /\ r = Min(Readings)
        /\ out # "ok" => r = Min(Readings)
        /\ ~written => landed
        /\ now' = t
        /\ next_measurement' = IF signal THEN NextDeadline(t)
                                          ELSE next_measurement
        /\ get_new_measurement' = (wanted /\ ~measure)
        /\ pre_relay_activated' = (activated /\ ~measure)
        /\ pre_relay_timer' = relay_timer
        /\ due_at' = IF signal THEN t ELSE due_at
        /\ relay_starts' = IF start_relay THEN Append(relay_starts, t)
                                          ELSE relay_starts
        /\ measured' = IF measure
                          THEN Append(measured,
                                      [at |-> t, due_at |-> due_at',
                                       relay_until |-> relay_timer])
                          ELSE measured
        /\ IF measure
              THEN /\ stop_iteration_counter' = CounterAfter(out)
                   /\ ReadResult(out, r)
                   /\ logs' = Append(logs, LoggedBy(out))
              ELSE UNCHANGED <<stop_iteration_counter, measurement,
                               updateSuccess, logs>>
        /\ influx' = IF written THEN sample ELSE influx
        /\ acquired' = IF written THEN Append(acquired, <<t, r>>) ELSE acquired
        /\ cond_timer' = [i \in DOMAIN cond_timer |->
                            IF i \in due THEN t + cond_if_sensor_period[i]
                                         ELSE cond_timer[i]]
        /\ IF exc = "none"
              THEN /\ firings' = IF 1 \in due /\ fires
                                    THEN Append(firings, t) ELSE firings
                   /\ ev' = IF 1 \in due
                               THEN [at |-> t, found |-> LastFound(store, t),
                                     seen |-> store.value, fired |-> fires,
                                     sn |-> store.n, stime |-> store.time]
                               ELSE ev
                   /\ first_eval' = IF first_eval = 0 /\ 1 \in due
                                         /\ store.n >= 2
                                       THEN t ELSE first_eval
                   /\ trigger_cond' = FALSE
                   /\ UNCHANGED <<lpc, run_log>>
              ELSE /\ trigger_cond' = (trigger_cond \/ signal)
                   /\ lpc' = "dead"
                   /\ run_log' = exc
                   /\ UNCHANGED <<firings, ev, first_eval>>
        /\ UNCHANGED <<handshake, config_t, dicts, smtp_wait_timer, avars,
                       edge_reset_timer, db, l_it, l_itgen, l_id, l_mixed,
                       l_err, rvars, evars, kvars_t,
                       adc_config, reads, period, pre_relay_setup,
                       pre_relay_duration, if_sensor_direction,
                       if_sensor_setpoint, edges, ignored>>

\* the iteration with each outcome of the driver, of the writer thread, of
\* the rule evaluation and of the pin that the iteration can meet
TickStep ==
    \E out \in Outcomes, exc \in Raises :
        \E r \in (IF out = "ok" THEN Readings ELSE {Min(Readings)}),
           landed \in (IF out = "ok" THEN BOOLEAN ELSE {TRUE}),
           level \in (IF device = "EDGE" THEN {0, 1} ELSE {0}) :
            RunTick(out, r, landed, exc, level)

TickNext == Construct \/ RunStart \/ TickStep

\* sensor.period of the device that keeps failing
RetryPeriods == {20}

RetryInit == TickInitFor(RetryPeriods)

\* the iteration with a driver whose read fails: next() raises StopIteration
\* in every update_measure (an iteration that does not measure has no
\* outcome of the driver)
FailingTick ==
    \E out \in {"none", "stop"}, exc \in Raises :
        /\ RunTick(out, Min(Readings), TRUE, exc, 0)
        /\ measured' # measured => out = "stop"

RetryNext == Construct \/ RunStart \/ FailingTick

-----------------------------------------------------------------------------
(* An EDGE device: the same loop, which takes no measurement, and the       *)
(* callback edge_detected, which GPIO calls in a thread of its own for each *)
(* transition of the pin.  The callback is one step here; its interleaving  *)
(* with a reconfiguration is followed in the table model.                   *)

SwitchPolicies == {"rising", "falling", "both"}

\* the rules of the device: rule 1 is active, rule 2 may not be
SwitchDbs ==
    {[i \in RuleIds |-> IF i = 1 THEN r1 ELSE r2] :
        r1 \in {Row("edge", "rising", 2), Row("edge", "falling", 2),
                Row("edge", "both", 2), Row("state", "both", 2)},
        r2 \in {Off, Row("edge", "both", 2), Row("state", "rising", 2)}}

\* the controller on entering the device dispatch of its constructor
SwitchInit ==
    /\ device = "EDGE" /\ switch_edge \in SwitchPolicies
    /\ db \in SwitchDbs
    /\ now = 0 /\ running = FALSE /\ pause_loop = FALSE
    /\ verify_pause_loop = FALSE
    /\ cond_id = [i \in ActiveIds(db) |-> i]
    /\ cond_is_activated = [i \in ActiveIds(db) |-> db[i].on]
    /\ cond_if_sensor_period = [i \in ActiveIds(db) |-> db[i].period]
    /\ cond_if_sensor_edge_select = [i \in ActiveIds(db) |-> db[i].sel]
    /\ cond_if_sensor_edge_detected = [i \in ActiveIds(db) |-> db[i].det]
    /\ cond_rest = [i \in ActiveIds(db) |-> i]
    /\ cond_timer = [i \in ActiveIds(db) |-> now + db[i].period]
    /\ smtp_wait_timer = [i \in ActiveIds(db) |-> now + SmtpWindow]
    /\ edge_reset_timer = now
    /\ gen = [f \in Fields |-> 0]
    /\ lpc = "init" /\ l_it = {} /\ l_itgen = 0 /\ l_id = 0 /\ l_mixed = FALSE
    /\ l_err = FALSE
    /\ rpc = "idle" /\ r_mod = "setup" /\ r_rows = db /\ r_todo = {}
    /\ r_id = 0 /\ r_calls = 0
    /\ epc = "idle" /\ e_it = {} /\ e_itgen = 0 /\ e_itsize = 0 /\ e_id = 0
    /\ e_dir = 0 /\ e_mixed = FALSE /\ e_err = FALSE
    /\ period \in DevicePeriods
    /\ next_measurement = now
    /\ get_new_measurement = FALSE
    /\ trigger_cond = FALSE
    /\ pre_relay_setup \in PreRelaySetups
    /\ pre_relay_duration \in (IF pre_relay_setup THEN PreRelayDurations
                                                  ELSE {0})
    /\ pre_relay_activated = FALSE
    /\ pre_relay_timer = now
    /\ if_sensor_direction = ""
    /\ if_sensor_setpoint = 0
    /\ influx = NoSample
    /\ acquired = <<>>
    /\ firings = <<>>
    /\ ev = NoEvaluation
    /\ first_eval = 0
    /\ run_log = "none"
    /\ due_at = 0
    /\ relay_starts = <<>>
    /\ measured = <<>>
    /\ edges = <<>>
    /\ ignored = <<>>

\* a callback that also takes a transition at the end of the reset period
Accepts_AtReset(t) == t >= edge_reset_timer

\* if time.time() > self.edge_reset_timer:
Accepts(t) == t > edge_reset_timer

\* a callback that evaluates the rules on the pin's state too
EdgeRuleMatches_AnySelect(i, dir) ==
    /\ cond_is_activated[i]
    /\ \/ cond_if_sensor_edge_detected[i] = "rising" /\ dir = 1
       \/ cond_if_sensor_edge_detected[i] = "falling" /\ dir = -1
       \/ cond_if_sensor_edge_detected[i] = "both"

\* the condition under which the callback calls check_conditionals(i)
EdgeRuleMatches(i, dir) ==
    /\ cond_is_activated[i]
    /\ cond_if_sensor_edge_select[i] = "edge"
    /\ \/ cond_if_sensor_edge_detected[i] = "rising" /\ dir = 1
       \/ cond_if_sensor_edge_detected[i] = "falling" /\ dir = -1
       \/ cond_if_sensor_edge_detected[i] = "both"

\* edge_detected(pin) with the pin at level: within the reset period nothing
\* happens; else the timer is set, the direction classified and written
\* (write_influxdb_value), and the matching rules are evaluated
edge_detected(level) ==
    /\ device = "EDGE"
    /\ lpc \in {"top", "dead"}
    /\ Len(edges) + Len(ignored) < MaxEdges
    /\ IF Accepts(now)
          THEN /\ edge_reset_timer' = now + ResetPeriod
               /\ influx' = [n |-> influx.n + 1, time |-> now,
                             value |-> Direction(switch_edge, level)]
               /\ edges' = Append(edges,
                     [at |-> now, level |-> level,
                      dir |-> Direction(switch_edge, level),
                      rules |-> {i \in DOMAIN cond_id :
                          EdgeRuleMatches(i, Direction(switch_edge, level))}])
               /\ UNCHANGED ignored
          ELSE /\ ignored' = Append(ignored, now)
               /\ UNCHANGED <<edge_reset_timer, influx, edges>>
    /\ UNCHANGED <<handshake, config_t, dicts, timers, now, db, lvars, rvars,
                   evars, kvars, mvars, avars, period, next_measurement,
                   get_new_measurement, trigger_cond, pre_relay_setup,
                   pre_relay_duration, pre_relay_activated, pre_relay_timer,
                   if_sensor_direction, if_sensor_setpoint, acquired, firings,
                   ev, first_eval, run_log, due_at, relay_starts, measured>>

EdgeCallback == \E level \in {0, 1} : edge_detected(level)

SwitchNext == Construct \/ RunStart \/ TickStep \/ EdgeCallback

-----------------------------------------------------------------------------
(* The email branch of check_conditionals: one counter of emails for the    *)
(* controller (email_count), one window end per rule (smtp_wait_timer).     *)
(* The model follows the rules of an EDGE device, which fire whenever an    *)
(* edge comes; each has one email action.  The clock moves in steps of ten  *)
(* minutes, and several firings fit in one instant of it.                   *)

\* smtp.hourly_max
HourlyMaxima == {3}

EmailStep == SmtpWindow \div 6

MaxClock == SmtpWindow + 2 * EmailStep

\* the table of a controller built for device dev over the rules of DbB
RulesInit(dev) ==
    /\ device = dev /\ switch_edge = "both"
    /\ db = DbB
    /\ now = 0
    /\ running = TRUE
    /\ pause_loop = FALSE
    /\ verify_pause_loop = FALSE
    /\ cond_id = [i \in ActiveIds(db) |-> i]
    /\ cond_is_activated = [i \in ActiveIds(db) |-> db[i].on]
    /\ cond_if_sensor_period = [i \in ActiveIds(db) |-> db[i].period]
    /\ cond_if_sensor_edge_select = [i \in ActiveIds(db) |-> db[i].sel]
    /\ cond_if_sensor_edge_detected = [i \in ActiveIds(db) |-> db[i].det]
    /\ cond_rest = [i \in ActiveIds(db) |-> i]
    /\ cond_timer = [i \in ActiveIds(db) |-> now + db[i].period]
    /\ smtp_wait_timer = [i \in ActiveIds(db) |-> now + SmtpWindow]
    /\ edge_reset_timer = now
    /\ gen = [f \in Fields |-> 0]
    /\ lpc = "start" /\ l_it = {} /\ l_itgen = 0 /\ l_id = 0 /\ l_mixed = FALSE
    /\ l_err = FALSE
    /\ rpc = "idle" /\ r_mod = "setup" /\ r_rows = db /\ r_todo = {}
    /\ r_id = 0 /\ r_calls = 0
    /\ epc = "idle" /\ e_it = {} /\ e_itgen = 0 /\ e_itsize = 0 /\ e_id = 0
    /\ e_dir = 0 /\ e_mixed = FALSE /\ e_err = FALSE

\* The action list at rest, for the specifications that do not move it.
ListIdle ==
    /\ cond_actions = <<>>
    /\ apc = "entry"
    /\ a_k = 1
    /\ a_threads = {}
    /\ a_started = <<>>

EmailInit ==
    /\ RulesInit("EDGE")
    /\ smtp_max_count \in HourlyMaxima
    /\ email_count = 0
    /\ allowed_to_send_notice = TRUE
    /\ notices = <<>>
    /\ ListIdle

\* The action model at rest, for the specifications that do not move it.
ActionIdle ==
    /\ smtp_max_count = 0
    /\ email_count = 0
    /\ allowed_to_send_notice = TRUE
    /\ notices = <<>>
    /\ ListIdle

\* a limiter that lets one email more through
EmailAllowed_OneMore(i) ==
    ~(email_count > smtp_max_count /\ now < smtp_wait_timer[i])

\* the test of the email branch: the notice is held back when the count has
\* reached the maximum and the rule's window has not ended
EmailAllowed(i) ==
    ~(email_count >= smtp_max_count /\ now < smtp_wait_timer[i])

\* if time.time() > self.smtp_wait_timer[cond_id]: in the else branch
EmailResets(i) == EmailAllowed(i) /\ now > smtp_wait_timer[i]

\* an email branch that counts the emails sent only
EmailAction_CountSent(i) ==
    /\ email_count' = IF EmailAllowed(i)
                         THEN (IF EmailResets(i) THEN 0 ELSE email_count) + 1
                         ELSE email_count
    /\ smtp_wait_timer' = IF EmailResets(i)
                             THEN Put(smtp_wait_timer, i, now + SmtpWindow)
                             ELSE smtp_wait_timer
    /\ allowed_to_send_notice' = EmailAllowed(i)
    /\ notices' = Append(notices,
                         [rule |-> i, at |-> now, sent |-> EmailAllowed(i),
                          wait |-> IF EmailAllowed(i) THEN 0
                                   ELSE smtp_wait_timer[i] - now,
                          window |-> smtp_wait_timer'[i]])

\* the email branch for rule i: the counter, the window end, the flag, then
\* send_email or the "Wait .. seconds to email again." line
EmailAction(i) ==
    /\ email_count' = (IF EmailResets(i) THEN 0 ELSE email_count) + 1
    /\ smtp_wait_timer' = IF EmailResets(i)
                             THEN Put(smtp_wait_timer, i, now + SmtpWindow)
                             ELSE smtp_wait_timer
    /\ allowed_to_send_notice' = EmailAllowed(i)
    /\ notices' = Append(notices,
                         [rule |-> i, at |-> now, sent |-> EmailAllowed(i),
                          wait |-> IF EmailAllowed(i) THEN 0
                                   ELSE smtp_wait_timer[i] - now,
                          window |-> smtp_wait_timer'[i]])

\* check_conditionals(i) of a rule that fires and has one email action
FireEmailRule(i) ==
    /\ Len(notices) < MaxNotices
    /\ i \in DOMAIN smtp_wait_timer
    /\ EmailAction(i)
    /\ UNCHANGED <<handshake, config_t, dicts, cond_timer, edge_reset_timer,
                   now, db, lvars, rvars, evars, kvars, mvars, pvars,
                   smtp_max_count, list_vars>>

\* ten minutes pass
EmailTock ==
    /\ now < MaxClock
    /\ now' = now + EmailStep
    /\ UNCHANGED <<handshake, config, dicts, timers, edge_reset_timer, db,
                   lvars, rvars, evars>>

EmailNext == (\E i \in RuleIds : FireEmailRule(i)) \/ EmailTock

-----------------------------------------------------------------------------
(* The action loop of check_conditionals for one firing of rule 1: the      *)
(* caller (the run loop or the edge callback) walks the rule's action list. *)
(* Relay, PID and LCD actions are handed to a thread; cmd_output,           *)
(* camera_record and send_email are called, and the caller has their        *)
(* results only when they return.                                           *)

\* ConditionalActions.do_action (a relay action is one with do_relay_id)
ActionKinds == {"relay", "command", "photo", "photo_email", "video",
                "video_email", "activate_pid", "deactivate_pid", "email",
                "flash_lcd"}

\* the action lists of at most n actions
RECURSIVE ActionLists(_)
ActionLists(n) ==
    IF n = 0 THEN {<<>>}
    ELSE ActionLists(n - 1) \cup
         {Append(l, k) : l \in {x \in ActionLists(n - 1) : Len(x) = n - 1},
                         k \in ActionKinds}

\* what the PID query of an action returns: no row, or the row's is_activated
PidRows == {"none", "active", "inactive"}

\* the rule whose firing the model follows
FiredRule == 1

ActionsInit ==
    /\ \E dev \in Devices : RulesInit(dev)
    /\ smtp_max_count \in HourlyMaxima
    /\ email_count \in {0, smtp_max_count}
    /\ allowed_to_send_notice = TRUE
    /\ notices = <<>>
    /\ cond_actions \in ActionLists(MaxActions)
    /\ apc = "entry"
    /\ a_k = 1
    /\ a_threads = {}
    /\ a_started = <<>>

\* update_measure of a periodic device before the rule fires; an EDGE device
\* never measures, its self.measurement stays None
ReadBeforeFiring ==
    /\ apc = "entry"
    /\ device # "EDGE"
    /\ reads = <<>>
    /\ \E out \in {"ok", "none"} : update_measure(out, 1)

\* check_conditionals up to the action loop: the rule's condition holds and
\* its actions are read from the database
EnterActionLoop ==
    /\ apc = "entry"
    /\ apc' = "loop"
    /\ UNCHANGED <<tvars, kvars, mvars, pvars, email_vars, cond_actions, a_k,
                   a_threads, a_started>>

\* threading.Thread(target=...).start(): the action runs on its own and the
\* loop goes on
StartThread ==
    /\ a_threads' = a_threads \cup {a_k}
    /\ a_k' = a_k + 1
    /\ UNCHANGED apc

\* a branch that starts nothing
NothingStarted ==
    /\ a_k' = a_k + 1
    /\ UNCHANGED <<apc, a_threads>>

\* a call of cmd_output, camera_record or send_email in the caller's thread
CallHelper ==
    /\ apc' = "in_call"
    /\ UNCHANGED <<a_k, a_threads>>

\* an exception in the loop body: nothing in check_conditionals catches it
RaiseInLoop ==
    /\ apc' = "raised"
    /\ UNCHANGED <<a_k, a_threads>>

\* one pass of "for cond_action in cond_actions" up to the point where the
\* action is handed over, called, or has raised
DispatchAction(pid) ==
    LET kind == cond_actions[a_k] IN
    /\ apc = "loop"
    /\ a_k <= Len(cond_actions)
    /\ a_started' = Append(a_started, a_k)
    /\ kind \notin {"activate_pid", "deactivate_pid"} => pid = "none"
    /\ CASE kind \in {"relay", "flash_lcd"} -> StartThread
         [] kind = "command" ->
              \* self.measurement.values.items() of None
              IF measurement.read THEN CallHelper ELSE RaiseInLoop
         \* the elif chain takes the first branch that matches: the capture
         \* branches name 'photo_email' and 'video_email' too, and come
         \* before the email branch
         [] kind \in {"photo", "photo_email", "video", "video_email"} ->
              CallHelper
         [] kind = "activate_pid" ->
              IF pid = "none" THEN RaiseInLoop
              ELSE IF pid = "active" THEN NothingStarted ELSE StartThread
         [] kind = "deactivate_pid" ->
              IF pid = "none" THEN RaiseInLoop
              ELSE IF pid = "inactive" THEN NothingStarted ELSE StartThread
         [] kind = "email" ->
              IF EmailAllowed(FiredRule) THEN CallHelper ELSE NothingStarted
    /\ IF kind = "email"
          THEN EmailAction(FiredRule)
          ELSE UNCHANGED <<email_count, allowed_to_send_notice, notices,
                           smtp_wait_timer>>
    /\ UNCHANGED <<handshake, config_t, dicts, cond_timer, edge_reset_timer,
                   now, db, lvars, rvars, evars, kvars, mvars, pvars,
                   smtp_max_count, cond_actions>>

\* the helper the caller waits in returns
HelperReturns ==
    /\ apc = "in_call"
    /\ apc' = "loop"
    /\ a_k' = a_k + 1
    /\ UNCHANGED <<tvars, kvars, mvars, pvars, email_vars, cond_actions,
                   a_threads, a_started>>

\* the target of a thread finishes
ThreadCompletes(k) ==
    /\ k \in a_threads
    /\ a_threads' = a_threads \ {k}
    /\ UNCHANGED <<tvars, kvars, mvars, pvars, email_vars, cond_actions, apc,
                   a_k, a_started>>

\* logger_cond.debug(message) after the loop
LeaveActionLoop ==
    /\ apc = "loop"
    /\ a_k > Len(cond_actions)
    /\ apc' = "returned"
    /\ UNCHANGED <<tvars, kvars, mvars, pvars, email_vars, cond_actions, a_k,
                   a_threads, a_started>>

ActionsNext ==
    \/ ReadBeforeFiring
    \/ EnterActionLoop
    \/ (\E pid \in PidRows : DispatchAction(pid))
    \/ HelperReturns
    \/ (\E k \in 1..MaxActions + 1 : ThreadCompletes(k))
    \/ LeaveActionLoop

-----------------------------------------------------------------------------
(* The MH-Z19 driver (sensors/mh_z19.py): read() called by several          *)
(* processes for one device location, all on one lock file.  Before the     *)
(* migration read() takes the lock with lockfile.LockFile (acquire with a   *)
(* timeout of 60 s, then break_lock and acquire); after it, with            *)
(* fasteners.InterProcessLock (up to 600 non-blocking acquires).  One step  *)
(* per call of the lock library or of get_measurement.                      *)

Processes == {"p1", "p2"}

LockLibraries == {"lockfile", "fasteners"}

\* self._co2 = None, and self._co2 = 0 of the constructor
None == 0 - 1
Initial == 0

\* what read() has returned: nothing yet, None, 1, or an exception
Returns == {"pending", "None", "1", "raised"}

DriverInit ==
    /\ lock_library \in LockLibraries
    /\ serial_device \in [Processes -> BOOLEAN]
    /\ lock_holder = Free
    /\ dpc = [p \in Processes |-> "idle"]
    /\ calls = [p \in Processes |-> 0]
    /\ attempts = [p \in Processes |-> 0]
    /\ lock_acquired = [p \in Processes |-> FALSE]
    /\ co2 = [p \in Processes |-> Initial]
    /\ ret = [p \in Processes |-> "pending"]
    /\ freed_unheld = [p \in Processes |-> FALSE]

\* The driver model at rest, for the specifications that do not move it.
DriverIdle ==
    /\ lock_library = "lockfile"
    /\ serial_device = [p \in Processes |-> FALSE]
    /\ lock_holder = Free
    /\ dpc = [p \in Processes |-> "idle"]
    /\ calls = [p \in Processes |-> 0]
    /\ attempts = [p \in Processes |-> 0]
    /\ lock_acquired = [p \in Processes |-> FALSE]
    /\ co2 = [p \in Processes |-> Initial]
    /\ ret = [p \in Processes |-> "pending"]
    /\ freed_unheld = [p \in Processes |-> FALSE]

\* the variables of the other models, and the driver's configuration
dconfig == <<lock_library, serial_device, has_mux, has_adc, holder, upc, cur,
             waited, early, meas, updateSuccess, failed, did_read, breaks,
             entry_ext, env_failed, tvars, mvars, pvars, avars>>

\* read() up to the lock: a device that was not validated returns None at
\* once; otherwise the lock object is made and the acquisition begins
read_Enter(p) ==
    /\ dpc[p] = "idle"
    /\ calls[p] < MaxCalls
    /\ calls' = [calls EXCEPT ![p] = @ + 1]
    /\ attempts' = [attempts EXCEPT ![p] = 0]
    /\ lock_acquired' = [lock_acquired EXCEPT ![p] = FALSE]
    /\ IF serial_device[p]
          THEN /\ dpc' = [dpc EXCEPT ![p] = "acquire"]
               /\ ret' = [ret EXCEPT ![p] = "pending"]
          ELSE /\ ret' = [ret EXCEPT ![p] = "None"]
               /\ UNCHANGED dpc
    /\ UNCHANGED <<dconfig, lock_holder, co2, freed_unheld>>

\* an acquire that takes the lock from whoever holds it
TryAcquire_Always(p, raises) ==
    /\ lock_library = "fasteners"
    /\ dpc[p] = "acquire"
    /\ lock_holder' = p
    /\ lock_acquired' = [lock_acquired EXCEPT ![p] = TRUE]
    /\ dpc' = [dpc EXCEPT ![p] = "measure"]
    /\ UNCHANGED <<dconfig, calls, co2, ret, freed_unheld, attempts>>

\* fasteners: lock_acquired = lock.acquire(blocking=False) in the for loop.
\* The lock is taken when no process holds it; otherwise the call returns
\* False and, after time.sleep(0.1), the loop tries again, up to its last
\* pass.  acquire opens the lock file, which can raise.
TryAcquire(p, raises) ==
    /\ lock_library = "fasteners"
    /\ dpc[p] = "acquire"
    /\ IF raises
          THEN /\ dpc' = [dpc EXCEPT ![p] = "except"]
               /\ UNCHANGED <<lock_holder, lock_acquired, attempts>>
          ELSE IF lock_holder = Free
          THEN /\ lock_holder' = p
               /\ lock_acquired' = [lock_acquired EXCEPT ![p] = TRUE]
               /\ dpc' = [dpc EXCEPT ![p] = "measure"]
               /\ UNCHANGED attempts
          ELSE /\ attempts' = [attempts EXCEPT ![p] = @ + 1]
               /\ dpc' = [dpc EXCEPT ![p] = IF attempts[p] + 1 >= MaxTries
                                               THEN "after" ELSE "acquire"]
               /\ UNCHANGED <<lock_holder, lock_acquired>>
    /\ UNCHANGED <<dconfig, calls, co2, ret, freed_unheld>>

\* lockfile: lock.acquire(timeout=60) in the while loop takes the lock when
\* no process holds it ...
AcquireLockFile(p) ==
    /\ lock_library = "lockfile"
    /\ dpc[p] = "acquire"
    /\ lock_holder = Free
    /\ lock_holder' = p
    /\ lock_acquired' = [lock_acquired EXCEPT ![p] = TRUE]
    /\ dpc' = [dpc EXCEPT ![p] = "measure"]
    /\ UNCHANGED <<dconfig, calls, attempts, co2, ret, freed_unheld>>

\* ... or raises: LockTimeout after 60 s of another process holding it, or
\* LockFailed.  The except clause logs and goes on to break_lock.
AcquireLockFileRaises(p, timeout) ==
    /\ lock_library = "lockfile"
    /\ dpc[p] = "acquire"
    /\ timeout => lock_holder \notin {Free, p}
    /\ dpc' = [dpc EXCEPT ![p] = "break"]
    /\ UNCHANGED <<dconfig, calls, attempts, lock_acquired, lock_holder, co2,
                   ret, freed_unheld>>

\* lock.break_lock(): the lock file is removed, whoever holds it
BreakLockFile(p) ==
    /\ dpc[p] = "break"
    /\ lock_holder' = Free
    /\ dpc' = [dpc EXCEPT ![p] = "acquire2"]
    /\ UNCHANGED <<dconfig, calls, attempts, lock_acquired, co2, ret,
                   freed_unheld>>

\* lock.acquire() after break_lock: waits for the lock without a timeout, or
\* raises LockFailed, which the outer except clause catches
AcquireAfterBreakLockFile(p, raises) ==
    /\ dpc[p] = "acquire2"
    /\ IF raises
          THEN /\ dpc' = [dpc EXCEPT ![p] = "except"]
               /\ UNCHANGED <<lock_holder, lock_acquired>>
          ELSE /\ lock_holder = Free
               /\ lock_holder' = p
               /\ lock_acquired' = [lock_acquired EXCEPT ![p] = TRUE]
               /\ dpc' = [dpc EXCEPT ![p] = "measure"]
    /\ UNCHANGED <<dconfig, calls, attempts, co2, ret, freed_unheld>>

\* what the serial port gives to get_measurement: nine bytes, nothing, or an
\* exception
Responses == {"bytes", "empty", "raise"}

\* self._co2 = self.get_measurement(): get_measurement sets self._co2 to None
\* first; it returns the concentration, or None for an empty response, or
\* raises.  A reading is numbered by the call that took it.
get_measurement(p, resp) ==
    /\ dpc[p] = "measure"
    /\ co2' = [co2 EXCEPT ![p] = IF resp = "bytes" THEN calls[p] ELSE None]
    /\ dpc' = [dpc EXCEPT ![p] = IF resp = "raise" THEN "except"
                                                   ELSE "release"]
    /\ UNCHANGED <<dconfig, calls, attempts, lock_acquired, lock_holder, ret,
                   freed_unheld>>

\* lock.release() after get_measurement.  release() of a lock that the
\* caller does not hold (another process broke it) raises, into the except
\* clause.
ReleaseAfterMeasurement(p) ==
    /\ dpc[p] = "release"
    /\ IF lock_holder = p
          THEN /\ lock_holder' = Free
               /\ dpc' = [dpc EXCEPT ![p] = "after"]
          ELSE /\ dpc' = [dpc EXCEPT ![p] = "except"]
               /\ UNCHANGED lock_holder
    /\ UNCHANGED <<dconfig, calls, attempts, lock_acquired, co2, ret,
                   freed_unheld>>

\* if self._co2 is None: return 1 / return
ReturnValue(p) == IF co2[p] = None THEN "1" ELSE "None"

\* the end of the try block: "Could not acquire MHZ19 lock" is logged when
\* the for loop ended without the lock, then the return
ReturnFromTry(p) ==
    /\ dpc[p] = "after"
    /\ ret' = [ret EXCEPT ![p] = ReturnValue(p)]
    /\ dpc' = [dpc EXCEPT ![p] = "idle"]
    /\ UNCHANGED <<dconfig, calls, attempts, lock_acquired, lock_holder, co2,
                   freed_unheld>>

\* except Exception: the error is logged, then lock.release() and return 1.
\* release() of a lock that the caller does not hold raises, and that
\* exception leaves read().
ExceptClause(p) ==
    /\ dpc[p] = "except"
    /\ IF lock_holder = p
          THEN /\ lock_holder' = Free
               /\ ret' = [ret EXCEPT ![p] = "1"]
               /\ UNCHANGED freed_unheld
          ELSE /\ ret' = [ret EXCEPT ![p] = "raised"]
               /\ freed_unheld' = [freed_unheld EXCEPT ![p] = TRUE]
               /\ UNCHANGED lock_holder
    /\ dpc' = [dpc EXCEPT ![p] = "idle"]
    /\ UNCHANGED <<dconfig, calls, attempts, lock_acquired, co2>>

DriverNext ==
    \E p \in Processes :
        \/ read_Enter(p)
        \/ \E raises \in BOOLEAN : TryAcquire(p, raises)
        \/ AcquireLockFile(p)
        \/ \E timeout \in BOOLEAN : AcquireLockFileRaises(p, timeout)
        \/ BreakLockFile(p)
        \/ \E raises \in BOOLEAN : AcquireAfterBreakLockFile(p, raises)
        \/ \E resp \in Responses : get_measurement(p, resp)
        \/ ReleaseAfterMeasurement(p)
        \/ ReturnFromTry(p)
        \/ ExceptClause(p)

-----------------------------------------------------------------------------
(* The threads of the table model *)

RunNext ==
    \/ RunStart \/ RunTop \/ RunCheckPause \/ RunSetVerify \/ RunPauseWait
    \/ RunIter \/ RunReadActivated \/ RunReadSelect \/ RunEvaluate

ReconfNext ==
    \/ \E rq \in Requests : ReconfRequest(rq[1], rq[2])
    \/ ReconfWaitVerify \/ ReconfClear \/ ReconfQuery \/ ReconfNextRule
    \/ ReconfFill \/ ReconfResume \/ ReconfUnverify

EdgeNextStep ==
    \/ \E level \in {0, 1} : EdgeEvent(level)
    \/ EdgeNext \/ EdgeReadActivated \/ EdgeReadSelect \/ EdgeReadDetected

\* the tick loop, the reconfiguring daemon thread and stop_controller
PauseNext == RunNext \/ ReconfNext \/ stop_controller \/ Tock

PauseInit ==
    TableInit /\ LockIdle /\ MeasureIdle /\ TickIdle /\ ActionIdle /\ DriverIdle

SpecPause == PauseInit /\ [][PauseNext]_vars

\* a call of setup_sensor_conditionals that has begun goes on
ReconfProgress ==
    \/ ReconfWaitVerify \/ ReconfClear \/ ReconfQuery \/ ReconfNextRule
    \/ ReconfFill \/ ReconfResume \/ ReconfUnverify

\* the same threads, each of them scheduled again and again: the run thread
\* takes its next step whenever it can, and so does the daemon thread inside
\* a call of setup_sensor_conditionals
SpecPauseFair ==
    /\ PauseInit /\ [][PauseNext]_vars
    /\ WF_vars(RunNext)
    /\ WF_vars(ReconfProgress)

\* an EDGE device: the tick loop, the reconfiguring daemon thread and the
\* interrupt thread
EdgeThreadsNext == RunNext \/ ReconfNext \/ EdgeNextStep \/ Tock

EdgeInit ==
    /\ TableInit /\ device = "EDGE" /\ LockIdle /\ MeasureIdle /\ TickIdle
    /\ ActionIdle /\ DriverIdle

SpecEdge == EdgeInit /\ [][EdgeThreadsNext]_vars

\* controllers sharing a multiplexer and an ADC address
SpecLockInit ==
    LockInit /\ TableIdle /\ MeasureIdle /\ TickIdle /\ ActionIdle /\ DriverIdle

SpecLock == SpecLockInit /\ [][LockNext]_vars

\* the same controllers, each of them scheduled again and again: a call of
\* update_measure that can take its next step takes it, and the clock of a
\* waiting acquire goes on
SpecLockFair == SpecLockInit /\ [][LockNext]_vars /\ WF_vars(LockNext)

\* the driver reads of one controller
SpecMeasureInit ==
    MeasureInit /\ TableIdle /\ LockIdle /\ TickIdle /\ ActionIdle /\ DriverIdle

SpecMeasure == SpecMeasureInit /\ [][MeasureNext]_vars

\* the tick loop of a periodic device without ADC
SpecTickInit ==
    TickInit /\ LockIdle /\ MeasureIdle /\ ActionIdle /\ DriverIdle

SpecTick == SpecTickInit /\ [][TickNext]_vars

\* the tick loop of a device that fails at every read.  The thread of run
\* is scheduled again and again: it sleeps 0.1 s between two iterations and
\* waits for nothing else.
SpecRetryInit ==
    RetryInit /\ LockIdle /\ MeasureIdle /\ ActionIdle /\ DriverIdle

SpecRetry == SpecRetryInit /\ [][RetryNext]_vars /\ WF_vars(FailingTick)

\* the MH-Z19 driver read by two processes
SpecDriverInit ==
    DriverInit /\ TableIdle /\ LockIdle /\ MeasureIdle /\ TickIdle /\ ActionIdle

SpecDriver == SpecDriverInit /\ [][DriverNext]_vars

\* an EDGE device without reconfiguration
SpecSwitchInit ==
    SwitchInit /\ LockIdle /\ MeasureIdle /\ ActionIdle /\ DriverIdle

SpecSwitch == SpecSwitchInit /\ [][SwitchNext]_vars

\* the email actions of the rules of one controller
SpecEmailInit ==
    EmailInit /\ LockIdle /\ MeasureIdle /\ TickIdle /\ DriverIdle

SpecEmail == SpecEmailInit /\ [][EmailNext]_vars

\* one firing of a rule with its action list
SpecActionsInit ==
    ActionsInit /\ LockIdle /\ MeasureIdle /\ TickIdle /\ DriverIdle

SpecActions == SpecActionsInit /\ [][ActionsNext]_vars

-----------------------------------------------------------------------------
(* Claims on the reconfiguration handshake *)

\* the states of setup_sensor_conditionals from its first to its last
\* assignment to a dictionary of the table
Mutating ==
    rpc \in {"clr_id", "clr_rest", "clr_act", "clr_period", "clr_sel",
             "clr_det", "query", "fill", "f_id", "f_act", "f_period", "f_sel",
             "f_det", "f_rest", "f_timer", "f_smtp", "resume"}

\* the table is version d of the database, whole
TableIs(d) ==
    /\ cond_id = [i \in ActiveIds(d) |-> i]
    /\ cond_is_activated = [i \in ActiveIds(d) |-> d[i].on]
    /\ cond_if_sensor_period = [i \in ActiveIds(d) |-> d[i].period]
    /\ cond_if_sensor_edge_select = [i \in ActiveIds(d) |-> d[i].sel]
    /\ cond_if_sensor_edge_detected = [i \in ActiveIds(d) |-> d[i].det]
    /\ \A f \in Fields : gen[f] = gen["id"]

\* C1: the dictionaries of the rule table are mutated only while the tick
\* loop is parked in its pause wait, and whenever the tick loop evaluates a
\* rule the table is one whole version of the database (the one read by the
\* last reconfiguration, or the constructor's): the loop meets no missing
\* key and no field of another version.
C1_PauseHandshake ==
    /\ Mutating => lpc = "wait"
    /\ lpc \in {"iter", "rd_act", "rd_sel", "fire"} => TableIs(r_rows)
    /\ ~l_err /\ ~l_mixed

\* the tick loop evaluates a rule of the table a reconfiguration installed
C1_Witness ==
    /\ lpc = "rd_sel"
    /\ r_calls >= 1 /\ l_itgen = r_calls
    /\ r_mod = "read"

\* C2: the edge callback meets no missing key, no dictionary changing under
\* its iteration, and no field of a version other than that of the dictionary
\* it iterates.
C2_EdgeReadsOneVersion == ~e_err /\ ~e_mixed

-----------------------------------------------------------------------------
(* Claims on the hardware-bus locks *)

InSetupLock(c) == upc[c] \in {"check", "acq", "brk", "acq2"}

\* controller c is blocked in an acquire on a lock that d holds
WaitsFor(c, d) == upc[c] \in {"acq", "acq2"} /\ holder[cur[c]] = d

\* no other controller uses the lock that c's setup_lock is about
SoleContender(c) == \A d \in Controllers \ {c} : ~Uses(d, cur[c])

\* C3: a controller performing the driver read holds the lock of every shared
\* bus it uses, and once update_measure has been left (by return or by an
\* exception) the controller holds no lock.
C3_LocksHeldThenReleased ==
    \A c \in Controllers :
        /\ upc[c] = "read" => \A l \in Locks : Uses(c, l) => holder[l] = c
        /\ upc[c] \in {"idle", "raised"} => \A l \in Locks : holder[l] # c

\* C4: a controller inside setup_lock for the multiplexer lock does not hold
\* the ADC lock, a controller of a multiplexed device holds the ADC lock only
\* after the multiplexer stage of the same update_measure, and no two
\* controllers wait for a lock the other holds.
C4_LockOrder ==
    /\ \A c \in Controllers :
          /\ InSetupLock(c) /\ cur[c] = "mux" => holder["adc"] # c
          /\ holder["adc"] = c /\ has_mux[c] => cur[c] = "adc"
    /\ \A c, d \in Controllers : ~(c # d /\ WaitsFor(c, d) /\ WaitsFor(d, c))

\* a controller holding the multiplexer lock waits for the ADC lock that
\* another controller holds
C4_Witness ==
    \E c, d \in Controllers :
        /\ c # d
        /\ holder["mux"] = c /\ cur[c] = "adc" /\ WaitsFor(c, d)

\* C5: in a setup_lock for a lock that the competing process held at the call
\* and that no other controller uses, with no LockFailed from the library:
\* the lock is broken only after the whole 60 s wait, it is broken once, one
\* acquire follows, and at the return the caller holds the lock.
C5_OneBreakThenSuccess ==
    \A c \in Controllers :
        entry_ext[c] /\ SoleContender(c) /\ ~env_failed[c] =>
            /\ upc[c] = "brk" => waited[c] = LockTimeout /\ breaks[c] = 0
            /\ upc[c] = "acq2" => breaks[c] = 1
            /\ ~InSetupLock(c) =>
                  /\ breaks[c] = 1 /\ waited[c] = LockTimeout
                  /\ ~failed[c]
                  /\ upc[c] = "read" => holder[cur[c]] = c

\* setup_lock has returned success after one break of the competing
\* process's lock
C5_Witness ==
    \E c \in Controllers :
        /\ entry_ext[c] /\ SoleContender(c) /\ ~env_failed[c]
        /\ upc[c] = "read" /\ breaks[c] = 1 /\ holder[cur[c]] = c

\* C6: in an update_measure in which setup_lock returned a failure status, no
\* driver read is performed, the thread of the tick loop is not ended, and
\* the update is unsuccessful when update_measure returns.
C6_LockFailureSkipsRead ==
    \A c \in Controllers :
        failed[c] =>
            /\ ~did_read[c]
            /\ upc[c] # "raised"
            /\ upc[c] = "idle" => ~updateSuccess[c]

-----------------------------------------------------------------------------
(* Claims on the driver read *)

RECURSIVE TrailingStops(_)
\* the StopIterations at the end of a history of outcomes
TrailingStops(h) ==
    IF h = <<>> \/ h[Len(h)] # "stop" THEN 0
    ELSE 1 + TrailingStops(SubSeq(h, 1, Len(h) - 1))

RECURSIVE StopsSince(_, _)
\* the StopIterations of a history since the last return of next() or the
\* last notification, other exceptions skipped
StopsSince(h, l) ==
    IF h = <<>> \/ h[Len(h)] \in {"ok", "none"} \/ l[Len(l)] = 1 THEN 0
    ELSE (IF h[Len(h)] = "stop" THEN 1 ELSE 0)
         + StopsSince(SubSeq(h, 1, Len(h) - 1), SubSeq(l, 1, Len(l) - 1))

Before(h) == SubSeq(h, 1, Len(h) - 1)

\* C7 as stated: the first and second StopIteration in a row log nothing, the
\* third logs one message, and a successful read leaves the counter at 0.
C7_ThirdInARowLogs ==
    reads # <<>> =>
        /\ TrailingStops(reads) \in {1, 2} => logs[Len(logs)] = 0
        /\ TrailingStops(reads) = 3 => logs[Len(logs)] = 1
        /\ reads[Len(reads)] = "ok" => stop_iteration_counter = 0

\* C7, amended: for a device read through measure_sensor (no ADC), counting
\* the StopIterations since the last return of next() or the last
\* notification, whatever other exceptions came between: the first and the
\* second log nothing, the third logs one message and restarts the count;
\* every return of next() leaves the counter at 0; nothing else logs.
C7_ThirdSinceReturnLogs ==
    ~adc /\ reads # <<>> =>
        LET n == StopsSince(Before(reads), Before(logs))
        IN  /\ reads[Len(reads)] = "stop" /\ n < 2 =>
                  logs[Len(logs)] = 0 /\ stop_iteration_counter = n + 1
            /\ reads[Len(reads)] = "stop" /\ n = 2 =>
                  logs[Len(logs)] = 1 /\ stop_iteration_counter = 0
            /\ reads[Len(reads)] \in {"ok", "none"} =>
                  logs[Len(logs)] = 0 /\ stop_iteration_counter = 0
            /\ reads[Len(reads)] = "exc" =>
                  logs[Len(logs)] = 0 /\ stop_iteration_counter = n
            /\ n <= 2

\* a third StopIteration that another exception separates from the second
\* is notified
C7_Witness ==
    /\ ~adc /\ Len(reads) = 4
    /\ reads[3] = "exc" /\ reads[4] = "stop"
    /\ logs[4] = 1

HasUnits == measurement.read /\ measurement.units # NoUnits

InUnitRange ==
    /\ adc_units_min * measurement.units[2] <= measurement.units[1]
    /\ measurement.units[1] <= adc_units_max * measurement.units[2]

\* C8 as stated: whatever the configuration, a stored converted value lies
\* within [adc_units_min, adc_units_max].
C8_AlwaysInUnitRange == adc /\ HasUnits => InUnitRange

\* C8, amended: when adc_units_min <= adc_units_max, a stored converted value
\* lies within [adc_units_min, adc_units_max], for every raw voltage, either
\* order of the voltage limits and either value of the inverse-scale flag
\* (with equal voltage limits no converted value is stored).
C8_InUnitRange ==
    /\ adc /\ HasUnits /\ adc_units_min <= adc_units_max => InUnitRange
    /\ adc /\ measurement.read /\ adc_volts_min = adc_volts_max =>
          measurement.units = NoUnits

\* a voltage above the limits was converted on the inverse scale
C8_Witness ==
    /\ adc /\ HasUnits /\ adc_units_min < adc_units_max
    /\ adc_volts_min < adc_volts_max /\ adc_inverse_unit_scale
    /\ measurement.value > adc_volts_max
    /\ measurement.units = <<adc_units_min * 2, 2>>

-----------------------------------------------------------------------------
(* Claims on the threshold rule *)

\* C9: an evaluation of a threshold rule ('above' or 'below') that finds the
\* most recent sample equal to the setpoint does not fire: no action of the
\* rule is executed.
C9_NoFiringAtSetpoint ==
    ev.at # 0 /\ ev.found /\ ev.seen = if_sensor_setpoint =>
        /\ ~ev.fired
        /\ (firings = <<>> \/ firings[Len(firings)] # ev.at)

\* a rule was evaluated on a sample equal to its setpoint
C9_Witness ==
    /\ ev.at = now /\ ev.found /\ ev.seen = if_sensor_setpoint
    /\ ~ev.fired

\* period 60 s, rule 'above 30', samples 29 then 31 taken 61 s apart
C10_Scenario ==
    /\ period = 60
    /\ if_sensor_direction = "above" /\ if_sensor_setpoint = 30
    /\ Len(acquired) = 2
    /\ acquired[1][2] = 29 /\ acquired[2][2] = 31
    /\ acquired[2][1] - acquired[1][1] = 61

\* at most one firing, and once a rule evaluation has followed the recording
\* of the second sample, one firing, at the first such evaluation
FiresOnceAtFirstEvaluation ==
    /\ Len(firings) <= 1
    /\ first_eval # 0 => firings = <<first_eval>>

-----------------------------------------------------------------------------
(* Claims on the email limiter *)

\* the notices k..l all belong to rule i, fall before the end of one window
\* of the rule, and lie within ten minutes
InOneWindow(i, k, l) ==
    /\ \A j \in k..l :
          /\ notices[j].rule = i
          /\ notices[j].window = notices[k].window
          /\ notices[j].at < notices[j].window
    /\ notices[l].at - notices[k].at <= EmailStep

\* C11: with an hourly maximum of 3, when the email actions processed so far
\* are four firings of one rule within ten minutes, all before the end of one
\* window of the rule, the first three were sent and the fourth was held
\* back, logging a positive wait time.
C11_ThreeSentOneSuppressed ==
    smtp_max_count = 3 /\ Len(notices) = 4 /\ InOneWindow(1, 1, 4) =>
        /\ \A j \in 1..3 : notices[j].sent
        /\ ~notices[4].sent
        /\ notices[4].wait > 0

\* four firings of rule 1 in the window that its first firing after an hour
\* opened; the fourth was held back
C11_Witness ==
    /\ smtp_max_count = 3 /\ Len(notices) = 4 /\ InOneWindow(1, 1, 4)
    /\ notices[1].window > SmtpWindow
    /\ ~notices[4].sent

\* the emails sent for rule i before the end w of one of its windows
SentInWindow(i, w) ==
    Cardinality({j \in 1..Len(notices) :
                    /\ notices[j].rule = i /\ notices[j].sent
                    /\ notices[j].window = w /\ notices[j].at < w})

\* C12: for every rule and every window of the rule, the emails sent for the
\* rule within the window are at most the hourly maximum.
C12_PerRuleLimit ==
    \A j \in 1..Len(notices) :
        SentInWindow(notices[j].rule, notices[j].window) <= smtp_max_count

-----------------------------------------------------------------------------
(* Claims on the errors of run and of the constructor *)

\* C13: once an exception other than ConnectionError raised inside a tick
\* has been logged by run, the loop is at the top of its next tick with the
\* controller running.
C13_LoopContinuesAfterException ==
    run_log = "Exception" => lpc = "top" /\ running

\* C14: once a requests.ConnectionError that reached run has been logged,
\* the loop is at the top of its next tick with the controller running.
C14_LoopContinuesAfterConnectionError ==
    run_log = "ConnectionError" => lpc = "top" /\ running

\* C15: a controller whose device is not a recognized one is never running
\* and never past its constructor, and it has taken no measurement, written
\* no sample and evaluated no rule.
C15_UnrecognizedNeverRuns ==
    device \notin Devices =>
        /\ ~running
        /\ lpc \in {"init", "ctor_raised"}
        /\ measurement = NoMeasurement
        /\ acquired = <<>> /\ influx = NoSample
        /\ ev = NoEvaluation /\ firings = <<>>

\* the constructor has raised for the unrecognized device
C15_Witness == device \notin Devices /\ lpc = "ctor_raised"

-----------------------------------------------------------------------------
(* Claims on the timers under reconfiguration, and on stopping *)

\* C16: in every step, the cond_timer of a rule that has one before and
\* after the step changes only when the step is the run loop's evaluation of
\* a rule, and it never decreases.
C16_TimerChangedByEvaluationOnly ==
    [][\A i \in (DOMAIN cond_timer) \cap (DOMAIN cond_timer') :
          /\ cond_timer'[i] # cond_timer[i] => lpc = "fire" /\ rpc' = rpc
          /\ cond_timer'[i] >= cond_timer[i]]_vars

-----------------------------------------------------------------------------
(* Claims on the action list *)

\* the actions check_conditionals is waiting for or has left running
InProgress == a_threads \cup (IF apc = "in_call" THEN {a_k} ELSE {})

\* C17: when check_conditionals is over, by return or by an exception, its
\* loop has come to every action of the list, in list order.
C17_AllActionsInOrder ==
    apc \in {"returned", "raised"} =>
        a_started = [k \in 1..Len(cond_actions) |-> k]

\* C18: the caller is past every action that is in progress: it never waits
\* for an action to complete.
C18_CallerNeverWaits == \A k \in InProgress : a_k > k

\* stop_controller has been called on the running controller and run has
\* not yet ended
Stopping == ~running /\ lpc \notin {"start", "stopped"}

\* C19: when the daemon calls setup_sensor_conditionals with 'add', 'del' or
\* 'mod' only, then from every state in which stop_controller has been called
\* the run loop eventually ends.
C19_StopReachesStopped ==
    [](r_mod # "other") => (Stopping ~> lpc = "stopped")

-----------------------------------------------------------------------------
(* Claims on the evaluation of the rules in a tick *)

\* C20: in every tick that runs to its end, the active rule is evaluated
\* when its cooldown has elapsed or when the tick has marked the rules
\* eligible because a measurement became due, and trigger_cond is False
\* after the tick.
C20_EvaluatedWhenElapsedOrMarked ==
    [][lpc = "top" /\ lpc' = "top" /\ now' = now + 1 =>
          /\ (/\ cond_is_activated[1]
              /\ \/ now' > cond_timer[1]
                 \/ next_measurement' # next_measurement)
             => ev'.at = now'
          /\ trigger_cond' = FALSE]_vars

-----------------------------------------------------------------------------
(* Claims on the measurement part of a tick *)

\* C21: with a pre relay set up, every call of update_measure happens at or
\* after the time the relay's duration ends, and the relay was triggered
\* once for it; with no pre relay, it happens in the tick in which the
\* measurement became due.
C21_AcquisitionAfterRelayWindow ==
    \A k \in 1..Len(measured) :
        IF pre_relay_setup
           THEN /\ measured[k].at >= measured[k].relay_until
                /\ Len(relay_starts) >= k
           ELSE measured[k].at = measured[k].due_at

\* C22: a measurement becomes due only in a tick whose time has passed
\* next_measurement while none is due already, and next_measurement is then
\* set to that time plus the period; each call of update_measure belongs to
\* a deadline of its own, and the due times of consecutive calls are at
\* least one period apart.
C22_OneAcquisitionPerDeadline ==
    /\ [][due_at' # due_at =>
             /\ now' > next_measurement /\ ~get_new_measurement
             /\ due_at' = now'
             /\ next_measurement' = now' + period]_vars
    /\ [](\A k \in 1..Len(measured) - 1 :
             measured[k + 1].due_at - measured[k].due_at >= period)

\* two acquisitions have been made, for two deadlines
C22_Witness == Len(measured) >= 2 /\ measured[2].due_at > measured[1].due_at

-----------------------------------------------------------------------------
(* Claims on the threshold test of check_conditionals *)

\* the evaluation recorded in ev had a sample of age less than 1.5 periods
SampleInWindow == ev.sn > 0 /\ 2 * (ev.at - ev.stime) < 3 * period

\* the sample of that evaluation is beyond the setpoint in the rule's
\* direction
Satisfied ==
    \/ if_sensor_direction = "above" /\ ev.seen > if_sensor_setpoint
    \/ if_sensor_direction = "below" /\ ev.seen < if_sensor_setpoint

\* C26: whenever a threshold rule was evaluated with a sample in the window
\* that satisfies its direction against the setpoint, whatever the value,
\* the rule has fired.
C26_FiresOnEverySatisfyingSample ==
    ev.at # 0 /\ if_sensor_direction \in Directions
        /\ SampleInWindow /\ Satisfied
    => ev.fired /\ firings # <<>> /\ firings[Len(firings)] = ev.at

\* C27: whenever a threshold rule was evaluated with no sample in the
\* window, it has not fired, and the loop goes on.
C27_NoSampleNoFiring ==
    ev.at # 0 /\ if_sensor_direction \in Directions /\ ~SampleInWindow
    => /\ ~ev.fired
       /\ (firings = <<>> \/ firings[Len(firings)] # ev.at)
       /\ (ev.at = now => lpc = "top" /\ running /\ run_log = "none")

\* the rule has just been evaluated while the store held only a sample
\* older than the window, one that would have satisfied the rule
C27_Witness ==
    /\ ev.at = now /\ if_sensor_direction \in Directions
    /\ ev.sn > 0 /\ ~SampleInWindow /\ Satisfied
    /\ ~ev.fired /\ lpc = "top"

-----------------------------------------------------------------------------
(* Claims on an EDGE device *)

\* C23: for an EDGE device the loop never marks a measurement due, never
\* sets a deadline, never triggers the pre relay and never calls
\* update_measure or add_measure_influxdb; every sample in the store was
\* written by an accepted call of edge_detected.
C23_EdgeLoopTakesNoMeasurement ==
    device = "EDGE" =>
        /\ ~get_new_measurement /\ ~trigger_cond
        /\ next_measurement = 0 /\ due_at = 0
        /\ ~pre_relay_activated /\ pre_relay_timer = 0
        /\ relay_starts = <<>>
        /\ measured = <<>> /\ acquired = <<>>
        /\ measurement = NoMeasurement
        /\ influx.n = Len(edges)

\* the loop of an EDGE device with a pre relay has run past the first
\* deadline, and the callback has written a sample
C23_Witness ==
    /\ device = "EDGE" /\ pre_relay_setup
    /\ now >= 2 /\ ev.at >= 2
    /\ Len(edges) >= 1

\* C24: an accepted transition sets the next acceptance time to its time
\* plus the reset period, a transition within the reset period of the last
\* accepted one persists nothing, and two accepted transitions are more than
\* one reset period apart.
C24_AcceptedMoreThanResetPeriodApart ==
    /\ Len(edges) > 0 =>
          edge_reset_timer = edges[Len(edges)].at + ResetPeriod
    /\ \A k \in 1..Len(edges) - 1 :
          edges[k + 1].at - edges[k].at > ResetPeriod
    /\ \A k \in 1..Len(edges) : influx.n >= k => influx.time >= edges[k].at
    /\ influx.n <= Len(edges)

\* a transition was accepted, the next one came at the end of the reset
\* period and was ignored, a later one was accepted
C24_Witness ==
    /\ Len(edges) = 2 /\ Len(ignored) = 1
    /\ edges[1].at < ignored[1] /\ ignored[1] < edges[2].at
    /\ ignored[1] = edges[1].at + ResetPeriod

\* the direction of a transition, from the pin level and the edge policy
\* of the device
Classified(policy, level) ==
    IF policy = "rising" THEN 1
    ELSE IF policy = "falling" THEN -1
    ELSE IF level = 1 THEN 1 ELSE -1

\* the rules of the table that are active, match on edges and name the
\* direction dir or both directions
EdgeRulesFor(dir) ==
    {i \in RuleIds :
        /\ db[i].on /\ db[i].sel = "edge"
        /\ \/ db[i].det = "both"
           \/ db[i].det = "rising" /\ dir = 1
           \/ db[i].det = "falling" /\ dir = -1}

\* C25: every accepted transition was classified from the pin level and the
\* edge policy, and the callback evaluated exactly the active rules on edges
\* whose edge is the classified direction or both; no rule on the pin's
\* state and no inactive rule.
C25_CallbackEvaluatesMatchingEdgeRules ==
    \A k \in 1..Len(edges) :
        /\ edges[k].dir = Classified(switch_edge, edges[k].level)
        /\ edges[k].rules = EdgeRulesFor(edges[k].dir)

\* with the policy both, a falling transition came for which the table has
\* a matching rule on edges and an active rule that the callback left out
C25_Witness ==
    /\ switch_edge = "both"
    /\ \E k \in 1..Len(edges) :
          /\ edges[k].dir = -1
          /\ edges[k].rules # {}
          /\ ActiveIds(db) \ edges[k].rules # {}


-----------------------------------------------------------------------------
(* Claims on the release of locks *)

\* C28: a controller about to call release_lock for a lock (the finally
\* clause of the ADC path, unlock_multiplexer of a multiplexed device) holds
\* that lock: it acquired it in this update_measure and has not released it.
C28_ReleasesOnlyHeldLocks ==
    \A c \in Controllers :
        /\ upc[c] = "rel_adc" => holder["adc"] = c
        /\ upc[c] = "rel_mux" /\ has_mux[c] => holder["mux"] = c

-----------------------------------------------------------------------------
(* Claims on the email counter *)

\* this step processed an email action
Notified == Len(notices') = Len(notices) + 1

\* the email action this step processed
LastNotice == notices'[Len(notices')]

\* C29, as stated: an email action whose notice is held back leaves the
\* counter as it was (the counter is incremented only when a notice is sent).
C29_CounterCountsSentOnly ==
    [][Notified /\ ~LastNotice.sent => email_count' = email_count]_vars

\* C29, amended: the notice of an email action of rule i is held back exactly
\* when the counter has reached the hourly maximum and the time is before the
\* end of the rule's window.  A notice that is sent after the end of the
\* window sets the counter to 1 and the end of the window to one hour from
\* now; every other email action, sent or held back, adds one to the counter
\* and leaves the windows alone, so that after a notice held back the counter
\* is above the maximum.
C29_CounterCountsEmailActions ==
    [][Notified =>
          LET n == LastNotice
              t == smtp_wait_timer[n.rule]
          IN  /\ n.sent <=> ~(email_count >= smtp_max_count /\ now < t)
              /\ IF n.sent /\ now > t
                    THEN /\ email_count' = 1
                         /\ smtp_wait_timer'[n.rule] = now + SmtpWindow
                    ELSE /\ email_count' = email_count + 1
                         /\ smtp_wait_timer' = smtp_wait_timer
              /\ ~n.sent => email_count' > smtp_max_count]_vars

\* a notice was held back and the counter stands above the maximum, and an
\* earlier notice had reset the counter after the end of a window
C29_Witness ==
    /\ Len(notices) > 1
    /\ ~notices[Len(notices)].sent
    /\ email_count = smtp_max_count + 1
    /\ \E j \in 1..Len(notices) :
          notices[j].sent /\ notices[j].window = notices[j].at + SmtpWindow

-----------------------------------------------------------------------------
(* Claims on the email actions of a fired rule *)

\* the kinds of action that notify by email
EmailKinds == {"email", "photo_email", "video_email"}

\* the actions the loop has come to whose kind notifies by email
EmailActionsStarted ==
    {j \in 1..Len(a_started) : cond_actions[a_started[j]] \in EmailKinds}

\* C30: for every action of kind 'email', 'photo_email' or 'video_email' that
\* the loop of the fired rule has come to, the rate-limited email step has
\* been executed: one notice, sent or held back, per such action.
C30_EmailStepForEveryEmailKind ==
    Len(notices) = Cardinality(EmailActionsStarted)

-----------------------------------------------------------------------------
(* Claims on a device that keeps failing *)

\* the calls of update_measure so far
Attempts == Len(measured)

\* the "StopIteration raised. Possibly could not read sensor." lines so far
Warnings == Cardinality({k \in 1..Len(logs) : logs[k] = 1})

-----------------------------------------------------------------------------
(* Claims on the conversion of an ADC reading *)

\* the smaller and the larger of two fractions with positive denominators
FracLess(a, b) == a[1] * b[2] < b[1] * a[2]
FracEq(a, b) == a[1] * b[2] = b[1] * a[2]

\* x kept within [lo, hi], all three fractions
Clamp(x, lo, hi) == IF FracLess(x, lo) THEN lo ELSE IF FracLess(hi, x) THEN hi
                    ELSE x

\* the reference conversion of a raw voltage v, as a fraction: clamp the
\* voltage, take its share of the voltage range, map it on the unit range
\* from the top when the scale is inverse and else from the bottom, clamp
ReferenceUnits(v) ==
    LET clamped == Clamp(<<v, 1>>, <<adc_volts_min, 1>>, <<adc_volts_max, 1>>)
        percent == <<clamped[1] - adc_volts_min * clamped[2],
                     (adc_volts_max - adc_volts_min) * clamped[2]>>
        span == adc_units_max - adc_units_min
        unit == IF adc_inverse_unit_scale
                   THEN <<adc_units_max * percent[2] - percent[1] * span,
                          percent[2]>>
                   ELSE <<adc_units_min * percent[2] + percent[1] * span,
                          percent[2]>>
    IN  Clamp(unit, <<adc_units_min, 1>>, <<adc_units_max, 1>>)

\* C32: with adc_volts_min < adc_volts_max and adc_units_min <= adc_units_max,
\* the measurement of an ADC reading holds a converted value, and that value
\* equals the reference conversion of the raw voltage.
C32_ConversionEqualsReference ==
    /\ adc /\ measurement.read
    /\ adc_volts_min < adc_volts_max /\ adc_units_min <= adc_units_max
    => /\ HasUnits
       /\ FracEq(measurement.units, ReferenceUnits(measurement.value))

\* a voltage in the middle of the range was converted on the inverse scale
C32_Witness ==
    /\ adc /\ HasUnits /\ adc_inverse_unit_scale
    /\ adc_volts_min < adc_volts_max /\ adc_units_min < adc_units_max
    /\ adc_volts_min < measurement.value /\ measurement.value < adc_volts_max
    /\ FracEq(measurement.units, <<adc_units_min + adc_units_max, 2>>)

-----------------------------------------------------------------------------
(* Claims on the MH-Z19 driver *)

\* the last call of read() by p took a measurement
FreshMeasurement(p) == calls[p] > 0 /\ co2[p] = calls[p]

\* C33: with fasteners and a validated device, a call of read() that has
\* returned None took a fresh measurement; every other call (no lock within
\* the attempts, an empty response, an exception) returned 1, so that next()
\* raises StopIteration.
C33_NoneOnlyAfterFreshMeasurement ==
    lock_library = "fasteners" =>
        \A p \in Processes :
            /\ serial_device[p] /\ dpc[p] = "idle" /\ ret[p] = "None"
            => FreshMeasurement(p)

\* p is at get_measurement or between it and the release of the lock
InCriticalSection(p) == dpc[p] \in {"measure", "release"}

\* C34: with fasteners, a process at get_measurement holds the lock of the
\* device, and holds it until its own release: no two processes are at
\* get_measurement at the same time, and no step of another process takes
\* the lock from its holder.
C34_OneProcessInGetMeasurement ==
    /\ [](lock_library = "fasteners" =>
             /\ \A p \in Processes : InCriticalSection(p) => lock_holder = p
             /\ \A p, q \in Processes :
                   InCriticalSection(p) /\ InCriticalSection(q) => p = q)
    /\ [][lock_library = "fasteners" =>
             \A p \in Processes :
                 lock_holder = p /\ lock_holder' # p => dpc'[p] # dpc[p]]_vars

\* one process is at get_measurement while the other has been refused the
\* lock
C34_Witness ==
    /\ lock_library = "fasteners"
    /\ \E p, q \in Processes :
          /\ p # q /\ dpc[p] = "measure" /\ lock_holder = p
          /\ dpc[q] = "acquire" /\ attempts[q] > 0

-----------------------------------------------------------------------------
(* Claims on the bus locks as a mutual exclusion *)

\* c is between a setup_lock of l that returned (1, "Success") and its
\* release_lock of l, in an update_measure none of whose setup_lock failed
InSection(c, l) ==
    /\ Uses(c, l) /\ ~failed[c]
    /\ \/ upc[c] = "read"
       \/ upc[c] = "rel_adc" /\ ~early[c]
       \/ upc[c] = "rel_mux" /\ l = "mux"
       \/ l = "mux" /\ cur[c] = "adc"
             /\ upc[c] \in {"check", "acq", "brk", "acq2"}

\* no acquire has waited its 60 seconds: no holder has kept a lock that long
\* from a controller
NoLongHold == \A c \in Controllers : waited[c] < LockTimeout

\* C35: as long as no holder keeps a lock for the 60 seconds of the acquire
\* timeout, no two controllers are between a successful setup_lock and the
\* matching release_lock of the same lock.
C35_MutualExclusion ==
    []NoLongHold =>
        [](\A l \in Locks : \A c, d \in Controllers :
              InSection(c, l) /\ InSection(d, l) => c = d)

-----------------------------------------------------------------------------
(* Claims on the return of setup_sensor_conditionals *)

\* C36: whenever a call of setup_sensor_conditionals has returned and no
\* other call has begun, the pause request is cleared, whatever cond_mod the
\* call was made with.
C36_ReturnClearsPause ==
    rpc = "idle" /\ r_calls > 0 => ~pause_loop

-----------------------------------------------------------------------------
(* Claims on is_running *)

\* C37: once run has left its loop, by a stop request or by an exception,
\* is_running() returns False.
C37_NotRunningAfterLoop ==
    lpc \in {"stopped", "dead"} => ~running

-----------------------------------------------------------------------------
(* Claims on the sample store *)

\* C38: an iteration of the loop hands a sample to the store if and only if
\* its own acquisition succeeded; the sample handed over is the reading of
\* that iteration, so after a failed acquisition the kept measurement is not
\* written again.
C38_WrittenIffAcquired ==
    [][/\ influx' # influx <=> /\ measured' # measured
                               /\ updateSuccess'[Self]
       /\ influx' # influx => /\ influx'.n = influx.n + 1
                              /\ influx'.time = now'
                              /\ influx'.value = measurement'.value]_vars

\* a failed acquisition after a successful one: the measurement of the first
\* is kept and the store holds one sample
C38_Witness ==
    /\ Len(measured) = 2
    /\ measurement.read /\ ~updateSuccess[Self]
    /\ influx.n = 1 /\ Len(acquired) = 1
    /\ influx.time = measured[1].at

-----------------------------------------------------------------------------
(* Claims on the spacing of the evaluations *)

\* C39: the loop evaluates only active rules; an evaluation of a rule happens
\* only after the rule's timer has passed and sets the timer to the time of
\* the evaluation plus the rule's period, so two consecutive evaluations of
\* a rule are at least one period of the rule apart.
C39_EvaluationsSpacedByPeriod ==
    [][/\ \A i \in DOMAIN cond_timer :
             cond_timer'[i] # cond_timer[i] =>
                 /\ db[i].on /\ cond_is_activated[i]
                 /\ now' > cond_timer[i]
                 /\ cond_timer'[i] = now' + cond_if_sensor_period[i]
       /\ ev' # ev =>
             /\ ev'.at = now' /\ cond_timer'[1] # cond_timer[1]
             /\ ev # NoEvaluation =>
                    ev'.at >= ev.at + cond_if_sensor_period[1]]_vars

\* the rule has been evaluated a second time, a period or more after the
\* first, and its timer is one period after this evaluation
C39_Witness ==
    /\ ev # NoEvaluation
    /\ ev.at > 2 * cond_if_sensor_period[1]
    /\ cond_timer[1] = ev.at + cond_if_sensor_period[1]

-----------------------------------------------------------------------------
(* Claims on the device lock of the MH-Z19 driver, in both versions *)

\* C40: with either lock library, a process whose read() is over does not
\* hold the device lock, and read() has called release() only on a lock it
\* had acquired.
C40_ReleasesOnlyAcquiredLock ==
    \A p \in Processes :
        /\ dpc[p] = "idle" => lock_holder # p
        /\ ~freed_unheld[p]

=============================================================================
